---- MODULE Spec2Model ----
(***************************************************************************)
(* Model of the backend agent's sandboxed terminal session:                *)
(*   src/backend_agent/tcp_terminal.py   TCPTerminalServer                 *)
(*   src/backend_agent/mount_manager.py  MountManager                      *)
(*                                                                         *)
(* The specifications share the variables:                                 *)
(*   Spec         one connection handled by handle_connection              *)
(*   SpecSandbox  the forked child from preexec to exec                    *)
(*   SpecRemap    the inbound erase-byte rewrite of read_tcp               *)
(*   SpecServer   two connections and the stop() coroutine                 *)
(*   SpecBridge   two connections and the bytes their bridges carry        *)
(*   SpecLive     one connection under a fair event loop                   *)
(***************************************************************************)
EXTENDS Integers, Sequences, FiniteSets, TLC

VARIABLES
    line,             \* [Sessions -> the first line the peer sends]
    sess,             \* [Sessions -> locals of handle_connection]
    pty,              \* [Sessions -> kernel state of the PTY pair]
    child,            \* [Sessions -> the process forked by Popen]
    active_sessions,  \* self._active_sessions: session_id -> info
    io,               \* read_tcp: verase_byte, data read, data written
    server,           \* the listener, the event loop and the stop() coroutine
    fds,              \* descriptor table of the server process
    net,              \* [connection -> the byte streams of its socket]
    pods,             \* the pods the API server has, by name
    ctl               \* the controller: calls in progress, results

\* the variables of the backend agent
vars_agent == <<line, sess, pty, child, active_sessions, io, server, fds, net>>

vars == <<line, sess, pty, child, active_sessions, io, server, fds, net,
         pods, ctl>>

Sessions == {1}
\* the connections of SpecServer
Conns == {1, 2}

(***************************************************************************)
(* Bounds                                                                  *)
(***************************************************************************)
MaxChunkLen == 3
\* highest descriptor number of the server process
MaxFd == 6
\* bytes a command writes to its terminal, bytes a peer sends after the header
MaxOut == 1
MaxIn == 1

(***************************************************************************)
(* Program constants                                                       *)
(***************************************************************************)
DEL == 127
BS == 8
DefaultRows == 24
DefaultCols == 80
UnprivGid == 1000
UnprivUid == 1000
SetupFailExit == 1
DrainAttempts == 10
CHROOT_PATH == "/mnt/chroot"
HomeDir == "/home/dcuuser"

(***************************************************************************)
(* read_tcp: bytes.replace on single-byte patterns, then the rewrite       *)
(***************************************************************************)
RECURSIVE Replace(_, _, _)
Replace(data, old, new) ==
    IF data = << >> THEN << >>
    ELSE <<IF Head(data) = old THEN new ELSE Head(data)>>
         \o Replace(Tail(data), old, new)

Remap_bs_only(data, verase_byte) == Replace(data, BS, verase_byte)

RECURSIVE ReplaceFirst(_, _, _)
ReplaceFirst(data, old, new) ==
    IF data = << >> THEN << >>
    ELSE IF Head(data) = old THEN <<new>> \o Tail(data)
    ELSE <<Head(data)>> \o ReplaceFirst(Tail(data), old, new)

Remap_first_only(data, verase_byte) ==
    LET d1 == ReplaceFirst(data, BS, verase_byte)
    IN IF verase_byte # DEL THEN ReplaceFirst(d1, DEL, verase_byte) ELSE d1

\* 295-297
Remap(data, verase_byte) ==
    LET d1 == Replace(data, BS, verase_byte)
    IN IF verase_byte # DEL THEN Replace(d1, DEL, verase_byte) ELSE d1

SampleBytes == {0, BS, 65, DEL}
EraseBytes == {0, BS, 21, DEL}

RECURSIVE SeqsUpTo(_, _)
SeqsUpTo(S, n) ==
    IF n = 0 THEN {<< >>}
    ELSE LET shorter == SeqsUpTo(S, n - 1)
         IN shorter \cup {Append(q, b) : q \in shorter, b \in S}

Chunks == SeqsUpTo(SampleBytes, MaxChunkLen) \ {<< >>}

(***************************************************************************)
(* The forked child: preexec (tcp_terminal.py) and                         *)
(* MountManager.setup_chroot_namespace (mount_manager.py).                 *)
(*   log      the operations the child attempted, in order                 *)
(*   faults   the attempted operations that failed in the environment      *)
(*   absent   the bind-mount sources found absent on the local host        *)
(*   HOME, USER  os.environ of the child process                           *)
(*   env      HOME and USER in the env argument of Popen, which is a copy  *)
(*            of the server's os.environ made before the fork (167)        *)
(*   cmd      HOME and USER in the environment of the executed command     *)
(***************************************************************************)
E(op, arg) == [op |-> op, arg |-> arg]

NoChild ==
    [pc |-> "none", status |-> "none", exitcode |-> 0, i |-> 1,
     ns |-> FALSE, private |-> FALSE, mounts |-> {}, copied |-> FALSE,
     suid_ok |-> FALSE, root |-> "/", cwd |-> "/", uid |-> 0, gid |-> 0,
     HOME |-> "/root", USER |-> "root", stderr |-> FALSE, sigterm |-> FALSE,
     reaped |-> FALSE, hosts_written |-> FALSE,
     env |-> [HOME |-> "/root", USER |-> "root"],
     cmd |-> [HOME |-> "none", USER |-> "none"],
     log |-> << >>, faults |-> {}, absent |-> {}, warnings |-> {}]

ForkedChild == [NoChild EXCEPT !.pc = "setsid", !.status = "preexec"]

bind_mounts == <<"proc", "sys", "dev", "usr/lib/sudo">>

SandboxOrder_setuid_first ==
    <<"unshare", "mount_private", "makedirs_chroot", "sshfs", "secure_dir",
      "copy_sudo", "bind_mounts", "sudo_target", "sudo_bind", "sudo_remount",
      "hosts_overlay", "chroot", "chdir", "setuid", "setgid", "environ">>

SandboxOrder_binds_first ==
    <<"unshare", "mount_private", "makedirs_chroot", "bind_mounts", "sshfs",
      "secure_dir", "copy_sudo", "sudo_target", "sudo_bind", "sudo_remount",
      "hosts_overlay", "chroot", "chdir", "setgid", "setuid", "environ">>

\* the statements of setup_chroot_namespace in program order
SandboxOrder ==
    <<"unshare", "mount_private", "makedirs_chroot", "sshfs", "secure_dir",
      "copy_sudo", "bind_mounts", "sudo_target", "sudo_bind", "sudo_remount",
      "hosts_overlay", "chroot", "chdir", "setgid", "setuid", "environ">>

NextOp(p) ==
    LET k == CHOOSE j \in 1..Len(SandboxOrder) : SandboxOrder[j] = p
    IN IF k = Len(SandboxOrder) THEN "exec" ELSE SandboxOrder[k + 1]

\* the operation ran and succeeded
Ok(c, e) == [c EXCEPT !.log = Append(@, e), !.pc = NextOp(c.pc)]
\* the operation ran and raised: control goes to the except clause (253)
Raise(c, e) ==
    [c EXCEPT !.log = Append(@, e), !.faults = @ \cup {e}, !.pc = "except"]
\* the operation ran and failed; a warning is logged and the sequence goes on
Warn(c, e) ==
    [c EXCEPT !.log = Append(@, e), !.faults = @ \cup {e},
              !.warnings = @ \cup {e}, !.pc = NextOp(c.pc)]

do_setsid(c) == {[c EXCEPT !.log = Append(@, E("setsid", "")), !.pc = "ctty"]}

do_ctty(c) ==
    LET e == E("TIOCSCTTY", "")
    IN {[c EXCEPT !.log = Append(@, e), !.pc = SandboxOrder[1]],
        [c EXCEPT !.log = Append(@, e), !.faults = @ \cup {e},
                  !.pc = SandboxOrder[1]]}

do_unshare(c) ==
    LET e == E("unshare", "")
    IN {[Ok(c, e) EXCEPT !.ns = TRUE], Raise(c, e)}

do_mount_private(c) ==
    LET e == E("mount_private", "")
    IN {[Ok(c, e) EXCEPT !.private = TRUE], Raise(c, e)}

do_makedirs_chroot(c) ==
    LET e == E("makedirs", CHROOT_PATH)
    IN {Ok(c, e), Raise(c, e)}

do_sshfs_warn_only(c) ==
    LET e == E("sshfs", "")
    IN {[Ok(c, e) EXCEPT !.mounts = @ \cup {CHROOT_PATH}], Warn(c, e)}

do_sshfs(c) ==
    LET e == E("sshfs", "")
    IN {[Ok(c, e) EXCEPT !.mounts = @ \cup {CHROOT_PATH}], Raise(c, e)}

\* 147-150: a stale /tmp/secure_bin is removed, then the directory is made
do_secure_dir(c) ==
    LET e == E("secure_dir", "")
    IN {[Ok(c, e) EXCEPT !.copied = FALSE], Raise(c, e)}

\* 157-162: only when /usr/bin/sudo exists locally: copy, then chmod 4755
do_copy_sudo(c) ==
    LET cp == E("copy", "sudo")
        ch == E("chmod", "sudo")
    IN {[c EXCEPT !.pc = NextOp(c.pc)],
        Raise(c, cp),
        Raise([c EXCEPT !.log = Append(@, cp)], ch),
        [Ok([c EXCEPT !.log = Append(@, cp)], ch) EXCEPT !.copied = TRUE]}

do_bind_mounts_absent_fatal(c) ==
    LET d == bind_mounts[c.i]
        after(x) == IF c.i = Len(bind_mounts)
                    THEN [x EXCEPT !.pc = NextOp(c.pc)]
                    ELSE [x EXCEPT !.i = c.i + 1]
    IN {[c EXCEPT !.absent = @ \cup {d}, !.pc = "except"],
        Raise(c, E("mktarget", d)),
        Raise(c, E("bind", d)),
        after([c EXCEPT !.log = Append(@, E("bind", d)),
                        !.mounts = @ \cup {d}])}

\* 167-189: one iteration of the loop over bind_mounts
do_bind_mounts(c) ==
    LET d == bind_mounts[c.i]
        after(x) == IF c.i = Len(bind_mounts)
                    THEN [x EXCEPT !.pc = NextOp(c.pc)]
                    ELSE [x EXCEPT !.i = c.i + 1]
    IN {after([c EXCEPT !.absent = @ \cup {d},
                        !.warnings = @ \cup {E("skip", d)}]),
        Raise(c, E("mktarget", d)),
        Raise(c, E("bind", d)),
        after([c EXCEPT !.log = Append(@, E("bind", d)),
                        !.mounts = @ \cup {d}])}

\* 193-198: the bind target inside the chroot is created when missing
do_sudo_target(c) ==
    LET e == E("create", "usr/bin/sudo")
    IN {[c EXCEPT !.pc = NextOp(c.pc)], Ok(c, e), Raise(c, e)}

\* 200-202: the mount fails when the hardened copy does not exist
do_sudo_bind(c) ==
    LET e == E("bind", "usr/bin/sudo")
    IN {Warn(c, e)} \cup
       (IF c.copied
        THEN {[Ok(c, e) EXCEPT !.mounts = @ \cup {"usr/bin/sudo"}]}
        ELSE {})

\* 206-207: the remount fails when the target is no mount point
do_sudo_remount(c) ==
    LET e == E("remount", "usr/bin/sudo")
    IN {Warn(c, e)} \cup
       (IF "usr/bin/sudo" \in c.mounts
        THEN {[Ok(c, e) EXCEPT !.suid_ok = TRUE]}
        ELSE {})

\* 212-237: /tmp/hosts_overlay is rewritten (227-228) and bound over the
\* sandbox's etc/hosts (232); an exception in the block, before or after
\* the rewrite, or a failed mount is only logged
do_hosts_overlay(c) ==
    LET e == E("hosts_overlay", "")
    IN {[Ok(c, e) EXCEPT !.mounts = @ \cup {"etc/hosts"},
                         !.hosts_written = TRUE],
        [Warn(c, e) EXCEPT !.hosts_written = TRUE],
        Warn(c, e)}

do_chroot(c) ==
    LET e == E("chroot", "")
    IN {[Ok(c, e) EXCEPT !.root = CHROOT_PATH, !.cwd = "/"], Raise(c, e)}

do_chdir(c) ==
    LET e == E("chdir", "")
    IN {[Ok(c, e) EXCEPT !.cwd = HomeDir], Raise(c, e)}

do_setgid(c) ==
    LET e == E("setgid", "")
    IN {[Ok(c, e) EXCEPT !.gid = UnprivGid], Raise(c, e)}

do_setuid_unchecked(c) ==
    LET e == E("setuid", "")
    IN {[Ok(c, e) EXCEPT !.uid = UnprivUid],
        [c EXCEPT !.log = Append(@, e), !.faults = @ \cup {e},
                  !.pc = NextOp(c.pc)]}

do_setuid(c) ==
    LET e == E("setuid", "")
    IN {[Ok(c, e) EXCEPT !.uid = UnprivUid], Raise(c, e)}

do_environ(c) ==
    {[Ok(c, E("environ", "")) EXCEPT !.HOME = HomeDir, !.USER = "dcuuser"]}

\* 253-256: the exception is printed to stderr and the process exits
do_except(c) ==
    {[c EXCEPT !.stderr = TRUE, !.status = "exited",
               !.exitcode = SetupFailExit, !.pc = "done"]}

\* preexec returned: Popen executes the command (tcp_terminal.py 191-199)
\* with the environment given as env (198), not with os.environ
do_exec(c) ==
    {[c EXCEPT !.log = Append(@, E("exec", "")), !.status = "execd",
               !.cmd = c.env, !.pc = "done"]}

ChildSucc(c) ==
    CASE c.pc = "setsid" -> do_setsid(c)
      [] c.pc = "ctty" -> do_ctty(c)
      [] c.pc = "unshare" -> do_unshare(c)
      [] c.pc = "mount_private" -> do_mount_private(c)
      [] c.pc = "makedirs_chroot" -> do_makedirs_chroot(c)
      [] c.pc = "sshfs" -> do_sshfs(c)
      [] c.pc = "secure_dir" -> do_secure_dir(c)
      [] c.pc = "copy_sudo" -> do_copy_sudo(c)
      [] c.pc = "bind_mounts" -> do_bind_mounts(c)
      [] c.pc = "sudo_target" -> do_sudo_target(c)
      [] c.pc = "sudo_bind" -> do_sudo_bind(c)
      [] c.pc = "sudo_remount" -> do_sudo_remount(c)
      [] c.pc = "hosts_overlay" -> do_hosts_overlay(c)
      [] c.pc = "chroot" -> do_chroot(c)
      [] c.pc = "chdir" -> do_chdir(c)
      [] c.pc = "setgid" -> do_setgid(c)
      [] c.pc = "setuid" -> do_setuid(c)
      [] c.pc = "environ" -> do_environ(c)
      [] c.pc = "except" -> do_except(c)
      [] c.pc = "exec" -> do_exec(c)
      [] OTHER -> {}

\* one step of the child of session s
ChildStep(s) ==
    /\ \E c2 \in ChildSucc(child[s]) : child' = [child EXCEPT ![s] = c2]
    /\ UNCHANGED <<line, sess, pty, active_sessions, io, server, fds, net>> /\ UNCHANGED <<pods, ctl>>

Setsid(s) == child[s].pc = "setsid" /\ ChildStep(s)
SetCtty(s) == child[s].pc = "ctty" /\ ChildStep(s)
Unshare(s) == child[s].pc = "unshare" /\ ChildStep(s)
MountPrivate(s) == child[s].pc = "mount_private" /\ ChildStep(s)
MakedirsChroot(s) == child[s].pc = "makedirs_chroot" /\ ChildStep(s)
Sshfs(s) == child[s].pc = "sshfs" /\ ChildStep(s)
SecureDir(s) == child[s].pc = "secure_dir" /\ ChildStep(s)
CopySudo(s) == child[s].pc = "copy_sudo" /\ ChildStep(s)
BindMounts(s) == child[s].pc = "bind_mounts" /\ ChildStep(s)
SudoTarget(s) == child[s].pc = "sudo_target" /\ ChildStep(s)
SudoBind(s) == child[s].pc = "sudo_bind" /\ ChildStep(s)
SudoRemount(s) == child[s].pc = "sudo_remount" /\ ChildStep(s)
HostsOverlay(s) == child[s].pc = "hosts_overlay" /\ ChildStep(s)
Chroot(s) == child[s].pc = "chroot" /\ ChildStep(s)
Chdir(s) == child[s].pc = "chdir" /\ ChildStep(s)
Setgid(s) == child[s].pc = "setgid" /\ ChildStep(s)
Setuid(s) == child[s].pc = "setuid" /\ ChildStep(s)
Environ(s) == child[s].pc = "environ" /\ ChildStep(s)
SetupExcept(s) == child[s].pc = "except" /\ ChildStep(s)
Exec(s) == child[s].pc = "exec" /\ ChildStep(s)

NextSandbox ==
    \E s \in Sessions :
        \/ Setsid(s) \/ SetCtty(s) \/ Unshare(s) \/ MountPrivate(s)
        \/ MakedirsChroot(s) \/ Sshfs(s) \/ SecureDir(s) \/ CopySudo(s)
        \/ BindMounts(s) \/ SudoTarget(s) \/ SudoBind(s) \/ SudoRemount(s)
        \/ HostsOverlay(s) \/ Chroot(s) \/ Chdir(s) \/ Setgid(s)
        \/ Setuid(s) \/ Environ(s) \/ SetupExcept(s) \/ Exec(s)


(***************************************************************************)
(* Values of the header: JSON values carry their type.                     *)
(***************************************************************************)
J_int(n) == [t |-> "int", v |-> n]
J_str(x) == [t |-> "str", v |-> x]
J_obj(f) == [t |-> "obj", v |-> f]
J_null == [t |-> "null", v |-> 0]
J_bool(b) == [t |-> "bool", v |-> b]
J_array == [t |-> "array", v |-> 0]
Unbound == [t |-> "unbound", v |-> 0]
NotJson == [t |-> "notjson", v |-> 0]
Absent == [t |-> "absent", v |-> 0]
EmptyDict == J_obj(<< >>)

\* a dict literal with one key
Dict1(k, x) == J_obj([j \in {k} |-> x])

CommandVals == {Absent, J_str("echo hi")}
RowsVals == {Absent, J_int(40)}
ColsVals == {Absent, J_int(120)}
TermVals == {Absent, J_str("vt100")}
SettingsVals ==
    {Absent, EmptyDict, J_null, Dict1("verase", J_int(BS)),
     Dict1("verase", J_int(DEL)), Dict1("verase", J_int(300)),
     Dict1("verase", J_null)}
EnvVals == {Absent, EmptyDict, J_null, Dict1("PATH", J_str("/opt/bin"))}

MkObj(c, r, co, tm, se, en) ==
    LET val(k) == CASE k = "command" -> c
                    [] k = "rows" -> r
                    [] k = "cols" -> co
                    [] k = "term" -> tm
                    [] k = "settings" -> se
                    [] k = "env" -> en
        keys == {k \in {"command", "rows", "cols", "term", "settings", "env"} :
                    val(k) # Absent}
    IN J_obj([k \in keys |-> val(k)])

HeaderObjects ==
    {MkObj(c, r, co, tm, se, en) :
        c \in CommandVals, r \in RowsVals, co \in ColsVals,
        tm \in TermVals, se \in SettingsVals, en \in EnvVals}

\* A first line: the bytes read by readline, as the text they decode to
\* (raw) and the value json.loads gives for that text (json).
Line(kind, raw, json) == [kind |-> kind, raw |-> raw, json |-> json]

NoLine == Line("none", "", NotJson)

FirstLines ==
    {Line("eof", "", NotJson),
     Line("badutf8", "", NotJson),
     Line("text", "echo hi", NotJson),
     Line("json", "true", J_bool(TRUE)),
     Line("json", "42", J_int(42)),
     Line("json", "\"ls\"", J_str("ls")),
     Line("json", "[1]", J_array),
     Line("json", "null", J_null)}
    \cup {Line("json", "{..}", o) : o \in HeaderObjects}

(***************************************************************************)
(* handle_connection: the locals of one connection handler                 *)
(***************************************************************************)
IdleSession ==
    [pc |-> "idle", addr |-> "", header |-> Unbound, command |-> Unbound,
     rows |-> Unbound, cols |-> Unbound, term_env |-> Unbound,
     settings |-> Unbound, verase_byte |-> DEL,
     master_fd |-> 0, slave_fd |-> 0, process |-> "none",
     session_id |-> 0, trace |-> << >>,
     env |-> [TERM |-> Unbound, PATH |-> Unbound],
     writer |-> "none", exc |-> "none", warnings |-> {}, envfault |-> {},
     was_registered |-> FALSE, negotiated |-> FALSE,
     rp |-> "none", rt |-> "none", drain |-> 0, process_done |-> FALSE,
     rp_err |-> FALSE, rt_err |-> FALSE]

NoPty ==
    [open |-> FALSE, winsize |-> << >>, verase |-> {}, configured |-> FALSE,
     out |-> << >>, wrote |-> 0, inp |-> << >>]

NoIo == [verase_byte |-> DEL, data |-> << >>, written |-> << >>,
         prev_data |-> << >>, prev_written |-> << >>]

\* dict.get(k, default)
Get(d, k, default) == IF k \in DOMAIN d.v THEN d.v[k] ELSE default

\* an exception reaches the handler's "except Exception" clause (213)
Exc(x, name) == [x EXCEPT !.exc = name, !.pc = "except"]

\* the value fits struct.pack's unsigned short
IsUShort(j) == j.t = "int" /\ (IF j.t = "int" THEN j.v \in 0..65535 ELSE FALSE)
\* bytes([v]) succeeds, and the byte it gives
IsByte(j) ==
    \/ j.t = "bool"
    \/ j.t = "int" /\ (IF j.t = "int" THEN j.v \in 0..255 ELSE FALSE)
ByteOf(j) == IF j.t = "bool" THEN (IF j.v THEN 1 ELSE 0) ELSE j.v
\* truth value of a header value
Truthy(j) ==
    CASE j.t = "str" -> j.v # ""
      [] j.t = "int" -> j.v # 0
      [] j.t = "bool" -> j.v
      [] j.t = "obj" -> DOMAIN j.v # {}
      [] j.t = "array" -> TRUE
      [] OTHER -> FALSE

\* 102-118: the header is parsed; a JSONDecodeError selects the legacy form
parse_header(x, l) ==
    IF l.kind = "badutf8" THEN Exc(x, "UnicodeDecodeError")
    ELSE IF l.json = NotJson
    THEN [x EXCEPT !.command = J_str(l.raw), !.rows = J_int(DefaultRows),
                   !.cols = J_int(DefaultCols),
                   !.term_env = J_str("xterm-256color"),
                   !.settings = EmptyDict,
                   !.warnings = @ \cup {"legacy command format"},
                   !.pc = "openpty"]
    ELSE IF l.json.t # "obj"
    THEN Exc([x EXCEPT !.header = l.json], "AttributeError")
    ELSE [x EXCEPT !.header = l.json,
                   !.command = Get(l.json, "command", J_null),
                   !.rows = Get(l.json, "rows", J_int(DefaultRows)),
                   !.cols = Get(l.json, "cols", J_int(DefaultCols)),
                   !.term_env = Get(l.json, "term", J_str("xterm-256color")),
                   !.settings = Get(l.json, "settings", EmptyDict),
                   !.pc = "openpty"]

\* the outcomes the environment can give the termios calls of 130-162
CfgOutcomes == {"ok", "tcgetattr", "tcsetattr"}

CfgWarn(x, o) ==
    [x EXCEPT !.warnings = @ \cup {"Failed to configure PTY"},
              !.envfault = IF o = "ok" THEN @ ELSE @ \cup {o}]

configure_pty_ignores_client(x, p, o) ==
    IF o = "tcgetattr" THEN <<CfgWarn(x, o), p>>
    ELSE IF o = "tcsetattr" THEN <<CfgWarn(x, o), p>>
    ELSE <<x, [p EXCEPT !.verase = {DEL}, !.configured = TRUE]>>

\* 130-162: line discipline and erase character; any exception is logged.
\* Gives the locals and the PTY state after the block.
configure_pty(x, p, o) ==
    IF o = "tcgetattr" THEN <<CfgWarn(x, o), p>>
    ELSE IF x.settings.t # "obj" THEN <<CfgWarn(x, "ok"), p>>
    ELSE LET verase == Get(x.settings, "verase", J_null)
         IN IF verase # J_null /\ ~IsByte(verase)
            THEN <<CfgWarn(x, "ok"), p>>
            ELSE LET b == IF verase # J_null THEN ByteOf(verase) ELSE DEL
                     x1 == [x EXCEPT !.verase_byte = b]
                 IN IF o = "tcsetattr" THEN <<CfgWarn(x1, o), p>>
                    ELSE <<x1, [p EXCEPT !.verase = {b},
                                         !.configured = TRUE]>>

\* 167-174: the environment of the command
build_env(x) ==
    IF x.header = Unbound THEN Exc(x, "UnboundLocalError")
    ELSE LET e == Get(x.header, "env", EmptyDict)
         IN IF e.t # "obj" THEN Exc(x, "AttributeError")
            ELSE LET client_path == Get(e, "PATH", J_str(""))
                 IN [x EXCEPT !.env = [TERM |-> x.term_env,
                                       PATH |-> IF Truthy(client_path)
                                                THEN client_path
                                                ELSE Unbound],
                              !.pc = "popen"]

\* what the server keeps of a child once Popen has returned or raised
ParentView(c) ==
    [c EXCEPT !.log = << >>, !.faults = {}, !.absent = {}, !.warnings = {},
              !.mounts = @ \cap {"etc/hosts"}, !.i = 1, !.copied = FALSE,
              !.suid_ok = FALSE]

RECURSIVE RunChild(_)
RunChild(c) ==
    IF c.pc = "done" THEN {c}
    ELSE UNION {RunChild(c2) : c2 \in ChildSucc(c)}

\* Popen returns when the child has executed the command or has exited
ChildOutcomes == {ParentView(c) : c \in RunChild(ForkedChild)}

(***************************************************************************)
(* Actions of handle_connection and _handle_io                             *)
(***************************************************************************)
Set(s, x) == sess' = [sess EXCEPT ![s] = x]

\* asyncio runs a coroutine without interruption from one await to the next.
\* server.running is the coroutine that holds the event loop, 0 when the loop
\* is idle.  resumed: the step starts after an await; suspends: it ends at one.
Step(s, resumed, suspends) ==
    /\ server.running = (IF resumed THEN 0 ELSE s)
    /\ server' = [server EXCEPT !.running = IF suspends THEN 0 ELSE s]

\* the failures the environment can produce in the calls of the handler
AllFaults ==
    {"openpty", "TIOCSWINSZ", "tcgetattr", "tcsetattr", "fork", "sandbox",
     "fcntl", "short_write", "EAGAIN", "reset"}

\* the frontends connections can come from
Frontend == "10.0.0.7"
OtherFrontend == "10.0.0.8"

\* the stop() coroutine, as a holder of the event loop
StopTask == 99

\* what the server process has of the things a sandbox construction sets:
\* mount namespace, root and working directory, identity, environment
ProcessOf(c) ==
    [ns |-> c.ns, private |-> c.private, mounts |-> c.mounts,
     root |-> c.root, cwd |-> c.cwd, uid |-> c.uid, gid |-> c.gid,
     HOME |-> c.HOME, USER |-> c.USER]

ServerProc == ProcessOf(NoChild)

\* AgentState.__init__ and reset(): the fields the endpoints below use
IdleState == [status |-> "idle", frontend_ip |-> "None", command |-> "None"]

\* the server after start(): listening, stop() not called; beside it the
\* agent's MountManager and AgentState, the last response of its HTTP
\* endpoints, the number of /unmount calls since the last /mount, the
\* addresses its peers connect from and the file /tmp/hosts_overlay of its
\* host
NoServer ==
    [running |-> 0, listening |-> TRUE, stop |-> "idle", at_stop |-> {},
     faults |-> AllFaults,
     mount_manager |-> [frontend_ip |-> "None"], state |-> IdleState,
     resp |-> [kind |-> "none"], unmounts |-> 0,
     peers |-> [s \in Conns |-> Frontend], hosts_overlay |-> "absent",
     proc |-> ServerProc]

\* 80, 189: the address of the peer of connection s; 214-228: what the
\* sandbox of s writes to /tmp/hosts_overlay, the hosts file of that
\* frontend with the name of this host added
PeerAddr(s) == server.peers[s]
HostsOf(s) == sess[s].addr

\* descriptor numbers the server process can use for PTYs
Fds == 3 .. MaxFd
FreeFd == [obj |-> 0, side |-> "free"]
NoFds == [n \in Fds |-> FreeFd]

\* os.close(fd), os.read(fd), os.write(fd) act on whatever the number names
FdOpen(fd) == fd # 0 /\ fds[fd] # FreeFd
IsMaster(fd) == FdOpen(fd) /\ fds[fd].side = "master"
FreeFds == {n \in Fds : fds[n] = FreeFd}
Lowest(S) == CHOOSE n \in S : \A m \in S : n <= m

\* id(writer): the address of the writer object, distinct from the address
\* of every object that is alive at the same time
WriterIds == {101, 102}
LiveIds ==
    {sess[t].session_id :
        t \in {u \in DOMAIN sess : sess[u].pc \notin {"idle", "closed"}}}

NoNet == [peer |-> "open", rx |-> << >>, sent |-> 0, tx |-> << >>, full |-> FALSE]

Accept_shared_id(s) ==
    /\ sess[s].pc = "idle"
    /\ Step(s, TRUE, TRUE)
    /\ server.listening
    /\ Set(s, [IdleSession EXCEPT !.pc = "readline", !.addr = PeerAddr(s),
                                  !.writer = "open",
                                  !.session_id = Lowest(WriterIds)])
    /\ UNCHANGED <<line, pty, child, active_sessions, io, fds, net>> /\ UNCHANGED <<pods, ctl>>

\* 86-93: a connection is accepted and the handler's locals are set
Accept(s) ==
    /\ sess[s].pc = "idle"
    /\ Step(s, TRUE, TRUE)
    /\ server.listening
    /\ Set(s, [IdleSession EXCEPT !.pc = "readline", !.addr = PeerAddr(s),
                                  !.writer = "open",
                                  !.session_id = Lowest(WriterIds \ LiveIds)])
    /\ UNCHANGED <<line, pty, child, active_sessions, io, fds, net>> /\ UNCHANGED <<pods, ctl>>

\* 97-100: the first line arrives; an empty read returns from the handler
ReadLine(s) ==
    /\ sess[s].pc = "readline"
    /\ Step(s, TRUE, FALSE)
    /\ \E l \in IF line[s] = NoLine THEN FirstLines ELSE {line[s]} :
          /\ line' = [line EXCEPT ![s] = l]
          /\ Set(s, [sess[s] EXCEPT !.pc = IF l.kind = "eof" THEN "finally"
                                           ELSE "parse"])
    /\ UNCHANGED <<pty, child, active_sessions, io, fds, net>> /\ UNCHANGED <<pods, ctl>>

ParseHeader(s) ==
    /\ sess[s].pc = "parse"
    /\ Step(s, FALSE, FALSE)
    /\ Set(s, parse_header(sess[s], line[s]))
    /\ UNCHANGED <<line, pty, child, active_sessions, io, fds, net>> /\ UNCHANGED <<pods, ctl>>

\* 121: pty.openpty() takes the two lowest free descriptor numbers; it raises
\* OSError when the kernel refuses (no descriptor left, no PTY left)
OpenPty(s) ==
    /\ sess[s].pc = "openpty"
    /\ Step(s, FALSE, FALSE)
    /\ \/ /\ Cardinality(FreeFds) >= 2
          /\ LET m == Lowest(FreeFds)
                 sl == Lowest(FreeFds \ {m})
             IN /\ Set(s, [sess[s] EXCEPT !.master_fd = m, !.slave_fd = sl,
                                          !.pc = "winsize"])
                /\ fds' = [fds EXCEPT ![m] = [obj |-> s, side |-> "master"],
                                      ![sl] = [obj |-> s, side |-> "slave"]]
          /\ pty' = [pty EXCEPT ![s] = [NoPty EXCEPT !.open = TRUE]]
       \/ /\ "openpty" \in server.faults
          /\ Set(s, Exc([sess[s] EXCEPT !.envfault = @ \cup {"openpty"}],
                        "OSError"))
          /\ UNCHANGED <<pty, fds>>
    /\ UNCHANGED <<line, child, active_sessions, io, net>> /\ UNCHANGED <<pods, ctl>>

\* 124-127: the window size; a failure is logged
SetWinsize(s) ==
    /\ sess[s].pc = "winsize"
    /\ Step(s, FALSE, FALSE)
    /\ LET x == sess[s]
           warn(f) == [x EXCEPT !.warnings = @ \cup {"Failed to set window size"},
                                !.envfault = @ \cup f, !.pc = "configure"]
       IN IF IsUShort(x.rows) /\ IsUShort(x.cols)
          THEN \/ /\ Set(s, [x EXCEPT !.pc = "configure"])
                  /\ pty' = [pty EXCEPT ![s].winsize = <<x.rows.v, x.cols.v>>]
               \/ /\ "TIOCSWINSZ" \in server.faults
                  /\ Set(s, warn({"TIOCSWINSZ"}))
                  /\ pty' = pty
          ELSE /\ Set(s, warn({}))
               /\ pty' = pty
    /\ UNCHANGED <<line, child, active_sessions, io, fds, net>> /\ UNCHANGED <<pods, ctl>>

ConfigurePty(s) ==
    /\ sess[s].pc = "configure"
    /\ Step(s, FALSE, FALSE)
    /\ \E o \in {f \in CfgOutcomes : f = "ok" \/ f \in server.faults} :
          LET r == configure_pty(sess[s], pty[s], o)
          IN /\ Set(s, [r[1] EXCEPT !.negotiated = TRUE, !.pc = "env"])
             /\ pty' = [pty EXCEPT ![s] = r[2]]
    /\ UNCHANGED <<line, child, active_sessions, io, fds, net>> /\ UNCHANGED <<pods, ctl>>

BuildEnv(s) ==
    /\ sess[s].pc = "env"
    /\ Step(s, FALSE, FALSE)
    /\ Set(s, build_env(sess[s]))
    /\ UNCHANGED <<line, pty, child, active_sessions, io, fds, net>> /\ UNCHANGED <<pods, ctl>>

Popen_in_server(s) ==
    /\ sess[s].pc = "popen"
    /\ server.running = s
    /\ LET x == sess[s]
       IN IF x.command.t # "str"
          THEN Set(s, Exc(x, "TypeError")) /\ UNCHANGED <<child, server>>
          ELSE \/ /\ "fork" \in server.faults
                  /\ Set(s, Exc([x EXCEPT !.envfault = @ \cup {"fork"}],
                                "OSError"))
                  /\ UNCHANGED <<child, server>>
               \/ \E c \in {o \in ChildOutcomes :
                              IF o.status = "execd"
                              THEN \/ "etc/hosts" \in o.mounts
                                   \/ "hosts_mount" \in server.faults
                              ELSE "sandbox" \in server.faults} :
                     /\ child' = [child EXCEPT ![s] = c]
                     /\ server' = [server EXCEPT
                                     !.hosts_overlay =
                                        IF c.hosts_written THEN HostsOf(s)
                                        ELSE @,
                                     !.proc = ProcessOf(c)]
                     /\ IF c.status = "execd"
                        THEN Set(s, [x EXCEPT !.process = "popen",
                                              !.pc = "close_slave"])
                        ELSE Set(s, Exc([x EXCEPT !.envfault =
                                                    @ \cup {"sandbox"}],
                                        "SubprocessError"))
    /\ UNCHANGED <<line, pty, active_sessions, io, fds, net>> /\ UNCHANGED <<pods, ctl>>

Popen_any_command(s) ==
    /\ sess[s].pc = "popen"
    /\ Step(s, FALSE, FALSE)
    /\ LET x == sess[s]
       IN \E c \in {o \in ChildOutcomes : o.status = "execd"} :
             /\ child' = [child EXCEPT ![s] = c]
             /\ Set(s, [x EXCEPT !.process = "popen", !.pc = "close_slave"])
    /\ UNCHANGED <<line, pty, active_sessions, io, fds, net>> /\ UNCHANGED <<pods, ctl>>

\* 191-199: Popen raises TypeError for a command that is no string, OSError
\* when fork fails and SubprocessError when preexec_fn raised; otherwise the
\* child has run preexec and executed the command when it returns.  The
\* handler waits in Popen for the whole of preexec, and what the child wrote
\* to /tmp of the host is there when Popen returns.
Popen(s) ==
    /\ sess[s].pc = "popen"
    /\ server.running = s
    /\ LET x == sess[s]
       IN IF x.command.t # "str"
          THEN Set(s, Exc(x, "TypeError")) /\ UNCHANGED <<child, server>>
          ELSE \/ /\ "fork" \in server.faults
                  /\ Set(s, Exc([x EXCEPT !.envfault = @ \cup {"fork"}],
                                "OSError"))
                  /\ UNCHANGED <<child, server>>
               \/ \E c \in {o \in ChildOutcomes :
                              IF o.status = "execd"
                              THEN \/ "etc/hosts" \in o.mounts
                                   \/ "hosts_mount" \in server.faults
                              ELSE "sandbox" \in server.faults} :
                     /\ child' = [child EXCEPT ![s] = c]
                     /\ server' = [server EXCEPT !.hosts_overlay =
                                     IF c.hosts_written THEN HostsOf(s) ELSE @]
                     /\ IF c.status = "execd"
                        THEN Set(s, [x EXCEPT !.process = "popen",
                                              !.pc = "close_slave"])
                        ELSE Set(s, Exc([x EXCEPT !.envfault =
                                                    @ \cup {"sandbox"}],
                                        "SubprocessError"))
    /\ UNCHANGED <<line, pty, active_sessions, io, fds, net>> /\ UNCHANGED <<pods, ctl>>

\* 200: the server's copy of the slave side is closed
CloseSlave(s) ==
    /\ sess[s].pc = "close_slave"
    /\ Step(s, FALSE, FALSE)
    /\ Set(s, [sess[s] EXCEPT !.pc = "register"])
    /\ fds' = [fds EXCEPT ![sess[s].slave_fd] = FreeFd]
    /\ UNCHANGED <<line, pty, child, active_sessions, io, net>> /\ UNCHANGED <<pods, ctl>>

\* datetime.now() when connection s registers
StartTime(s) == 1000 + s

Register_skipped(s) ==
    /\ sess[s].pc = "register"
    /\ Step(s, FALSE, FALSE)
    /\ Set(s, [sess[s] EXCEPT !.pc = "start_io"])
    /\ UNCHANGED <<line, pty, child, active_sessions, io, fds, net>> /\ UNCHANGED <<pods, ctl>>

\* 203-208
Register(s) ==
    /\ sess[s].pc = "register"
    /\ Step(s, FALSE, FALSE)
    /\ active_sessions' =
          (sess[s].session_id :> [process |-> s, addr |-> sess[s].addr,
                                  command |-> sess[s].command,
                                  started_at |-> StartTime(s)])
          @@ active_sessions
    /\ Set(s, [sess[s] EXCEPT !.was_registered = TRUE, !.pc = "start_io"])
    /\ UNCHANGED <<line, pty, child, io, fds, net>> /\ UNCHANGED <<pods, ctl>>

\* 211, 250-253: the master side is made non-blocking (an OSError of fcntl
\* leaves _handle_io) and the bridge starts both directions
StartIO(s) ==
    /\ sess[s].pc = "start_io"
    /\ \/ /\ Step(s, FALSE, TRUE)
          /\ Set(s, [sess[s] EXCEPT !.rp = "loop", !.rt = "loop",
                                    !.drain = 0, !.process_done = FALSE,
                                    !.pc = "handle_io"])
       \/ /\ "fcntl" \in server.faults
          /\ Step(s, FALSE, FALSE)
          /\ Set(s, Exc([sess[s] EXCEPT !.envfault = @ \cup {"fcntl"}],
                        "OSError"))
    /\ UNCHANGED <<line, pty, child, active_sessions, io, fds, net>> /\ UNCHANGED <<pods, ctl>>

\* the command ends on its own
ChildExits(s) ==
    /\ child[s].status = "execd"
    /\ \E code \in {0, 1} :
          child' = [child EXCEPT ![s].status = "exited", ![s].exitcode = code]
    /\ UNCHANGED <<line, sess, pty, active_sessions, io, server, fds, net>> /\ UNCHANGED <<pods, ctl>>

\* os.read(fd, 4096) after select: the pending output of the PTY whose master
\* side the number names; nothing when it names no master
Readable(fd) == IF IsMaster(fd) THEN pty[fds[fd].obj].out ELSE << >>

\* 261-264, 274-277: a chunk is taken from the PTY and handed to the writer,
\* which discards it when the connection is lost
Relay(s, fd) ==
    /\ pty' = [pty EXCEPT ![fds[fd].obj].out = << >>]
    /\ net' = [net EXCEPT ![s].tx = IF net[s].peer = "reset" THEN @
                                    ELSE @ \o Readable(fd)]

ReadPty_leaves_on_idle(s) ==
    /\ sess[s].rp \in {"loop", "loop_blocked"}
    /\ Step(s, TRUE, TRUE)
    /\ LET x == sess[s]
           fd == x.master_fd
       IN IF x.rp = "loop_blocked"
          THEN /\ ~net[s].full
               /\ Set(s, [x EXCEPT !.rp = "loop"])
               /\ UNCHANGED <<pty, net, child>>
          ELSE IF Readable(fd) # << >>
          THEN /\ Relay(s, fd)
               /\ Set(s, [x EXCEPT !.rp = IF net[s].full THEN "loop_blocked"
                                          ELSE "loop"])
               /\ child' = child
          ELSE /\ Set(s, [x EXCEPT !.rp = "drain", !.drain = 0])
               /\ UNCHANGED <<pty, net, child>>
    /\ UNCHANGED <<line, active_sessions, io, fds>> /\ UNCHANGED <<pods, ctl>>

\* 257-267: one iteration of the outbound loop, or its end.  The iteration
\* stays in writer.drain() (264) while the send buffer is full.  poll() (258)
\* collects the exit status of a child that has ended.  On a connection that
\* is lost drain() raises ConnectionResetError, which 265-266 pass over.
ReadPty(s) ==
    /\ sess[s].rp \in {"loop", "loop_blocked"}
    /\ Step(s, TRUE, TRUE)
    /\ LET x == sess[s]
           fd == x.master_fd
       IN IF x.rp = "loop_blocked"
          THEN /\ ~net[s].full \/ net[s].peer = "reset"
               /\ Set(s, [x EXCEPT !.rp = "loop",
                                   !.rp_err = @ \/ net[s].peer = "reset"])
               /\ UNCHANGED <<pty, net, child>>
          ELSE IF child[s].status # "execd"
          THEN /\ Set(s, [x EXCEPT !.rp = "drain", !.drain = 0])
               /\ child' = [child EXCEPT ![s].reaped = TRUE]
               /\ UNCHANGED <<pty, net>>
          ELSE IF Readable(fd) # << >>
          THEN /\ Relay(s, fd)
               /\ Set(s, [x EXCEPT
                            !.rp = IF net[s].peer = "reset" THEN "loop"
                                   ELSE IF net[s].full THEN "loop_blocked"
                                   ELSE "loop",
                            !.rp_err = @ \/ net[s].peer = "reset"])
               /\ child' = child
          ELSE UNCHANGED <<sess, pty, net, child>> /\ UNCHANGED <<pods, ctl>>
    /\ UNCHANGED <<line, active_sessions, io, fds>> /\ UNCHANGED <<pods, ctl>>

\* 270-286: one attempt of the drain, or its end; then process_done is set.
\* An OSError (drain() on a lost connection) ends the attempts (283-284).
DrainPty(s) ==
    /\ sess[s].rp \in {"drain", "drain_blocked"}
    /\ Step(s, TRUE, TRUE)
    /\ LET x == sess[s]
           fd == x.master_fd
           end == [x EXCEPT !.rp = "done", !.process_done = TRUE]
       IN IF x.rp = "drain_blocked"
          THEN /\ ~net[s].full \/ net[s].peer = "reset"
               /\ Set(s, IF net[s].peer = "reset"
                         THEN [end EXCEPT !.rp_err = TRUE]
                         ELSE [x EXCEPT !.rp = "drain"])
               /\ UNCHANGED <<pty, net>>
          ELSE IF x.drain < DrainAttempts /\ Readable(fd) # << >>
          THEN /\ Relay(s, fd)
               /\ Set(s, IF net[s].peer = "reset"
                         THEN [end EXCEPT !.drain = @ + 1, !.rp_err = TRUE]
                         ELSE [x EXCEPT !.drain = @ + 1,
                                        !.rp = IF net[s].full
                                               THEN "drain_blocked"
                                               ELSE "drain"])
          ELSE /\ Set(s, end)
               /\ UNCHANGED <<pty, net>>
    /\ UNCHANGED <<line, child, active_sessions, io, fds>> /\ UNCHANGED <<pods, ctl>>

\* os.write(master_fd, data) on the non-blocking master: the count of bytes
\* the terminal's input queue took, or 0 for BlockingIOError (EAGAIN)
WriteOutcomes(data) ==
    {Len(data)}
    \cup (IF "short_write" \in server.faults THEN 1 .. (Len(data) - 1) ELSE {})
    \cup (IF "EAGAIN" \in server.faults THEN {0} ELSE {})

\* 290-304: one iteration of the inbound loop, or its end (process_done,
\* end of stream, or an OSError from the read or the write).  The value
\* os.write returns is not looked at (298).
ReadTcp(s) ==
    /\ sess[s].rt = "loop"
    /\ Step(s, TRUE, TRUE)
    /\ LET x == sess[s]
           fd == x.master_fd
           data == net[s].rx
           err == [x EXCEPT !.rt = "done", !.rt_err = TRUE]
       IN IF x.process_done
          THEN /\ Set(s, [x EXCEPT !.rt = "done"])
               /\ UNCHANGED <<pty, net>>
          ELSE IF net[s].peer = "reset"
          THEN /\ Set(s, err)
               /\ UNCHANGED <<pty, net>>
          ELSE IF data # << >>
          THEN /\ net' = [net EXCEPT ![s].rx = << >>]
               /\ IF IsMaster(fd)
                  THEN \E n \in WriteOutcomes(data) :
                          /\ pty' = [pty EXCEPT ![fds[fd].obj].inp = @ \o
                                SubSeq(Remap(data, x.verase_byte), 1, n)]
                          /\ IF n = 0 THEN Set(s, err) ELSE UNCHANGED sess
                  ELSE /\ Set(s, err)
                       /\ pty' = pty
          ELSE IF net[s].peer = "eof"
          THEN /\ Set(s, [x EXCEPT !.rt = "done"])
               /\ UNCHANGED <<pty, net>>
          ELSE UNCHANGED <<sess, pty, net>>
    /\ UNCHANGED <<line, child, active_sessions, io, fds>> /\ UNCHANGED <<pods, ctl>>

GatherDone_first_task(s) ==
    /\ sess[s].pc = "handle_io"
    /\ Step(s, TRUE, FALSE)
    /\ sess[s].rp = "done" \/ sess[s].rt = "done"
    /\ Set(s, [sess[s] EXCEPT !.pc = "finally"])
    /\ UNCHANGED <<line, pty, child, active_sessions, io, fds, net>> /\ UNCHANGED <<pods, ctl>>

\* 307-311: gather returns when both directions have ended
GatherDone(s) ==
    /\ sess[s].pc = "handle_io"
    /\ Step(s, TRUE, FALSE)
    /\ sess[s].rp = "done" /\ sess[s].rt = "done"
    /\ Set(s, [sess[s] EXCEPT !.pc = "finally"])
    /\ UNCHANGED <<line, pty, child, active_sessions, io, fds, net>> /\ UNCHANGED <<pods, ctl>>

\* 213-214
Except(s) ==
    /\ sess[s].pc = "except"
    /\ Step(s, FALSE, FALSE)
    /\ Set(s, [sess[s] EXCEPT !.pc = "finally"])
    /\ UNCHANGED <<line, pty, child, active_sessions, io, fds, net>> /\ UNCHANGED <<pods, ctl>>

CloseMaster_skipped(s) ==
    /\ sess[s].pc = "finally"
    /\ Step(s, FALSE, FALSE)
    /\ Set(s, [sess[s] EXCEPT !.pc = "terminate"])
    /\ UNCHANGED <<line, pty, child, active_sessions, io, fds, net>> /\ UNCHANGED <<pods, ctl>>

\* 217-221: os.close(master_fd) unless master_fd is None; an OSError passes
CloseMaster(s) ==
    /\ sess[s].pc = "finally"
    /\ Step(s, FALSE, FALSE)
    /\ LET fd == sess[s].master_fd
       IN /\ Set(s, [sess[s] EXCEPT
                       !.trace = IF fd # 0 THEN Append(@, "close_master")
                                 ELSE @,
                       !.pc = "terminate"])
          /\ IF FdOpen(fd)
             THEN /\ fds' = [fds EXCEPT ![fd] = FreeFd]
                  /\ pty' = IF fds[fd].side = "master"
                            THEN [pty EXCEPT ![fds[fd].obj].open = FALSE]
                            ELSE pty
             ELSE UNCHANGED <<fds, pty>>
    /\ UNCHANGED <<line, child, active_sessions, io, net>> /\ UNCHANGED <<pods, ctl>>

reap_kill_only ==
    {[events |-> <<"kill">>, status |-> "killed", reaped |-> FALSE]}

\* 225-230: terminate(), wait(timeout=3), and kill() when the wait timed out.
\* A wait that returns has collected the exit status; kill() sends SIGKILL
\* and nothing waits for the child afterwards.
reap ==
    {[events |-> <<"terminate", "wait">>, status |-> "terminated",
      reaped |-> TRUE],
     [events |-> <<"terminate", "wait", "kill">>, status |-> "killed",
      reaped |-> FALSE]}

\* 224-230: poll() collects the exit status of a child that has ended
Terminate(s) ==
    /\ sess[s].pc = "terminate"
    /\ Step(s, FALSE, FALSE)
    /\ IF sess[s].process # "none" /\ child[s].status = "execd"
       THEN \E r \in reap :
               /\ child' = [child EXCEPT ![s].status = r.status,
                                         ![s].reaped = r.reaped]
               /\ Set(s, [sess[s] EXCEPT
                            !.trace = @ \o r.events,
                            !.warnings = IF r.status = "killed"
                                         THEN @ \cup {"Force killed process"}
                                         ELSE @,
                            !.pc = "pop"])
       ELSE /\ child' = [child EXCEPT ![s].reaped =
                                   @ \/ sess[s].process # "none"]
            /\ Set(s, [sess[s] EXCEPT !.pc = "pop"])
    /\ UNCHANGED <<line, pty, active_sessions, io, fds, net>> /\ UNCHANGED <<pods, ctl>>

PopSession_clears_registry(s) ==
    /\ sess[s].pc = "pop"
    /\ Step(s, FALSE, FALSE)
    /\ active_sessions' = << >>
    /\ Set(s, [sess[s] EXCEPT !.trace = Append(@, "pop"),
                              !.pc = "close_writer"])
    /\ UNCHANGED <<line, pty, child, io, fds, net>> /\ UNCHANGED <<pods, ctl>>

\* 233
PopSession(s) ==
    /\ sess[s].pc = "pop"
    /\ Step(s, FALSE, FALSE)
    /\ active_sessions' =
          [k \in DOMAIN active_sessions \ {sess[s].session_id} |->
              active_sessions[k]]
    /\ Set(s, [sess[s] EXCEPT !.trace = Append(@, "pop"),
                              !.pc = "close_writer"])
    /\ UNCHANGED <<line, pty, child, io, fds, net>> /\ UNCHANGED <<pods, ctl>>

\* 235-237
CloseWriter(s) ==
    /\ sess[s].pc = "close_writer"
    /\ Step(s, FALSE, TRUE)
    /\ Set(s, [sess[s] EXCEPT !.trace = Append(@, "close_writer"),
                              !.writer = "closed", !.pc = "closed"])
    /\ UNCHANGED <<line, pty, child, active_sessions, io, fds, net>> /\ UNCHANGED <<pods, ctl>>

\* the peer closes its sending side
PeerEof(s) ==
    /\ sess[s].writer = "open" /\ net[s].peer = "open"
    /\ net' = [net EXCEPT ![s].peer = "eof"]
    /\ UNCHANGED <<line, sess, pty, child, active_sessions, io, server, fds>> /\ UNCHANGED <<pods, ctl>>

(***************************************************************************)
(* The controller: BackendPool and Orchestrator over the cluster's pods    *)
(***************************************************************************)
POOL_SIZE == 3
POOL_PREFIX == "backend-pool"
STATUS_AVAILABLE == "available"
STATUS_ASSIGNED == "assigned"

\* f"{self.pool_prefix}-{n}"
PodName(n) == <<POOL_PREFIX, n>>

\* the pod names the two name computations of BackendPool can produce
PodNames == {PodName(n) : n \in 0..POOL_SIZE}

NoPodName == <<"none", 0>>

\* a name the API server has no pod for
NoPod ==
    [exists |-> FALSE, phase |-> "none", pool_status |-> "none",
     assigned_frontend |-> "", pod_ip |-> "none", rootfs |-> "none"]

NoPods == [p \in PodNames |-> NoPod]

\* the threads that serve requests to interactive/start
Callers == {1, 2}
FrontendPod(c) == <<"frontend", c>>
FrontendIp(c) == IF c = 1 THEN Frontend ELSE OtherFrontend
BackendIp(p) == <<"10.0.1", p[2]>>

\* the number of calls of initialize_pool that are followed
MaxInits == 2

\* the locals of one call of interactive_start
IdleCall ==
    [pc |-> "idle", frontend_ip |-> "none", backend_pod |-> NoPodName,
     backend_ip |-> "none", status |-> "none", message |-> "none"]

\* what the API server and kubectl can answer a call with, other than
\* success: ApiException, an exception that is no ApiException (the
\* connection to the API server fails), a non-zero exit status of the
\* mount command, and its 30-second timeout
CtlFaults == {"ApiException", "Exception", "returncode", "TimeoutExpired"}

NoCtl == [calls |-> [c \in Callers |-> IdleCall], inits |-> << >>,
          faults |-> {}]

\* 246-254: the metadata of the pod _create_pool_pod_spec(index) describes
create_pool_pod_spec(index) ==
    [name |-> PodName(index), pool_status |-> STATUS_AVAILABLE,
     assigned_frontend |-> ""]

\* create_namespaced_pod: the pod is scheduled, not started yet
CreatedPod(spec) ==
    [exists |-> TRUE, phase |-> "Pending", pool_status |-> spec.pool_status,
     assigned_frontend |-> spec.assigned_frontend, pod_ip |-> "none",
     rootfs |-> "none"]

\* 85-102: read_namespaced_pod answers 404 for a name that has no pod
pod_exists(P, pod_name) == P[pod_name].exists

\* 60-82: the loop of initialize_pool from index i on; the API server
\* refuses to create a pod under a name that is taken (409, ApiException)
RECURSIVE initialize_pool(_, _, _)
initialize_pool(i, P, results) ==
    IF i = POOL_SIZE THEN [pods |-> P, results |-> results]
    ELSE LET pod_name == PodName(i + 1)
             pod_spec == create_pool_pod_spec(i)
         IN IF pod_exists(P, pod_name)
            THEN initialize_pool(i + 1, P,
                    [results EXCEPT !.existing = Append(@, pod_name)])
            ELSE IF P[pod_spec.name].exists
            THEN initialize_pool(i + 1, P,
                    [results EXCEPT !.failed = Append(@, pod_name)])
            ELSE initialize_pool(i + 1,
                    [P EXCEPT ![pod_spec.name] = CreatedPod(pod_spec)],
                    [results EXCEPT !.created = Append(@, pod_name)])

NoResults == [created |-> << >>, existing |-> << >>, failed |-> << >>]

\* views.initialize_pool (155-161), Orchestrator.initialize_pool (42-45)
InitializePool ==
    /\ Len(ctl.inits) < MaxInits
    /\ LET r == initialize_pool(0, pods, NoResults)
       IN /\ pods' = r.pods
          /\ ctl' = [ctl EXCEPT !.inits = Append(@, r.results)]
    /\ UNCHANGED vars_agent

\* the kubelet starts a scheduled pod and the pod gets its address
PodStarts(p) ==
    /\ pods[p].exists /\ pods[p].phase = "Pending"
    /\ pods' = [pods EXCEPT ![p].phase = "Running", ![p].pod_ip = BackendIp(p)]
    /\ UNCHANGED ctl
    /\ UNCHANGED vars_agent

\* 84-119: the first of the running pods labelled available, in the
\* order of the list the API server returns; None if there is none
get_available_pod(P) ==
    LET running_pods == {p \in PodNames :
                            /\ P[p].exists
                            /\ P[p].pool_status = STATUS_AVAILABLE
                            /\ P[p].phase = "Running"}
    IN IF running_pods = {} THEN NoPodName
       ELSE CHOOSE p \in running_pods :
                \A q \in running_pods : p[2] <= q[2]

\* 121-146: the patch sets both labels, whatever they were
assign_pod(P, pod_name, frontend_pod) ==
    [P EXCEPT ![pod_name].pool_status = STATUS_ASSIGNED,
              ![pod_name].assigned_frontend = frontend_pod]

\* 148-172
release_pod(P, pod_name) ==
    [P EXCEPT ![pod_name].pool_status = STATUS_AVAILABLE,
              ![pod_name].assigned_frontend = ""]

Call(c) == ctl.calls[c]
SetCall(c, x) == ctl' = [ctl EXCEPT !.calls[c] = x]

\* a return of interactive_start with status error
Error(x, message) ==
    [x EXCEPT !.pc = "returned", !.status = "error", !.message = message]

\* what a call to the API server can end with
ApiOutcomes == {"ok"} \cup (ctl.faults \cap {"ApiException", "Exception"})

\* 61-62: a request to interactive/start arrives
InteractiveStart(c) ==
    /\ Call(c).pc = "idle"
    /\ SetCall(c, [IdleCall EXCEPT !.pc = "get_frontend_ip"])
    /\ UNCHANGED pods
    /\ UNCHANGED vars_agent

\* 65-70
GetFrontendIp(c) ==
    /\ Call(c).pc = "get_frontend_ip"
    /\ \E o \in ApiOutcomes :
          SetCall(c, CASE o = "ok" ->
                            [Call(c) EXCEPT !.frontend_ip = FrontendIp(c),
                                            !.pc = "get_available_pod"]
                       [] o = "ApiException" -> Error(Call(c), "no frontend ip")
                       [] OTHER -> Error(Call(c), "unexpected"))
    /\ UNCHANGED pods
    /\ UNCHANGED vars_agent

\* 73-78
GetAvailablePod(c) ==
    /\ Call(c).pc = "get_available_pod"
    /\ \E o \in ApiOutcomes :
          LET backend_pod == IF o = "ok" THEN get_available_pod(pods)
                             ELSE NoPodName
          IN SetCall(c, IF o = "Exception" THEN Error(Call(c), "unexpected")
                        ELSE IF backend_pod = NoPodName
                        THEN Error(Call(c), "no backend pod")
                        ELSE [Call(c) EXCEPT !.backend_pod = backend_pod,
                                             !.pc = "assign_pod"])
    /\ UNCHANGED pods
    /\ UNCHANGED vars_agent

\* 81-85
AssignPod(c) ==
    /\ Call(c).pc = "assign_pod"
    /\ \E o \in ApiOutcomes :
          IF o = "ok"
          THEN /\ pods' = assign_pod(pods, Call(c).backend_pod, FrontendPod(c))
               /\ SetCall(c, [Call(c) EXCEPT !.pc = "get_backend_ip"])
          ELSE /\ SetCall(c, Error(Call(c), IF o = "ApiException"
                                            THEN "assign failed"
                                            ELSE "unexpected"))
               /\ UNCHANGED pods
    /\ UNCHANGED vars_agent

\* 88-89: the address of the pod selected, None if the read fails
GetBackendIp(c) ==
    /\ Call(c).pc = "get_backend_ip"
    /\ \E o \in ApiOutcomes :
          SetCall(c, CASE o = "ok" ->
                            [Call(c) EXCEPT
                                !.backend_ip = pods[Call(c).backend_pod].pod_ip,
                                !.pc = "mount"]
                       [] o = "ApiException" ->
                            [Call(c) EXCEPT !.pc = "release",
                                            !.message = "no backend ip"]
                       [] OTHER -> Error(Call(c), "unexpected"))
    /\ UNCHANGED pods
    /\ UNCHANGED vars_agent

\* 162-193: what _mount_frontend can return; sshfs on a mount point that
\* is mounted already succeeds or fails with the FUSE version of the pod
MountOutcomes(c) ==
    {"ok"} \cup (ctl.faults \cap {"returncode", "TimeoutExpired"})
           \cup (IF pods[Call(c).backend_pod].rootfs # "none"
                 THEN {"returncode"} ELSE {})

\* 97-98, 105-115
MountFrontend(c) ==
    /\ Call(c).pc = "mount"
    /\ \E o \in MountOutcomes(c) :
          IF o = "ok"
          THEN /\ pods' = [pods EXCEPT ![Call(c).backend_pod].rootfs =
                                            Call(c).frontend_ip]
               /\ SetCall(c, [Call(c) EXCEPT !.pc = "returned",
                                             !.status = "success",
                                             !.message = "started"])
          ELSE /\ SetCall(c, [Call(c) EXCEPT
                                !.pc = "release",
                                !.message = IF o = "TimeoutExpired"
                                            THEN "Mount timeout"
                                            ELSE "mount failed"])
               /\ UNCHANGED pods
    /\ UNCHANGED vars_agent

\* 90-94, 99-103: the result of release_pod is not looked at; an exception
\* that is no ApiException reaches the handler of 117
ReleasePod(c) ==
    /\ Call(c).pc = "release"
    /\ \E o \in ApiOutcomes :
          /\ pods' = IF o = "ok" THEN release_pod(pods, Call(c).backend_pod)
                     ELSE pods
          /\ SetCall(c, Error(Call(c), IF o = "Exception" THEN "unexpected"
                                       ELSE Call(c).message))
    /\ UNCHANGED vars_agent

\* the caller has the answer; after a success it ends the session:
\* interactive_end (137-153) unmounts and releases the pod
InteractiveEnd(c) ==
    /\ Call(c).pc = "returned"
    /\ IF Call(c).status = "success"
       THEN \E o \in ApiOutcomes :
               pods' = IF o = "ok"
                       THEN release_pod([pods EXCEPT
                                ![Call(c).backend_pod].rootfs = "none"],
                                Call(c).backend_pod)
                       ELSE [pods EXCEPT ![Call(c).backend_pod].rootfs = "none"]
       ELSE UNCHANGED pods
    /\ SetCall(c, IdleCall)
    /\ UNCHANGED vars_agent

Init ==
    /\ line = [s \in Sessions |-> NoLine]
    /\ sess = [s \in Sessions |-> IdleSession]
    /\ pty = [s \in Sessions |-> NoPty]
    /\ child = [s \in Sessions |-> NoChild]
    /\ active_sessions = << >>
    /\ io = NoIo
    /\ server = NoServer
    /\ fds = NoFds
    /\ pods = NoPods
    /\ ctl = NoCtl
    /\ net = [s \in Sessions |-> NoNet]

Next ==
    \E s \in Sessions :
        \/ Accept(s) \/ ReadLine(s) \/ ParseHeader(s) \/ OpenPty(s)
        \/ SetWinsize(s) \/ ConfigurePty(s) \/ BuildEnv(s) \/ Popen(s)
        \/ CloseSlave(s) \/ Register(s) \/ StartIO(s) \/ ChildExits(s)
        \/ ReadPty(s) \/ DrainPty(s) \/ ReadTcp(s) \/ GatherDone(s)
        \/ Except(s) \/ CloseMaster(s) \/ Terminate(s) \/ PopSession(s)
        \/ CloseWriter(s) \/ PeerEof(s)

Spec == Init /\ [][Next]_vars

(***************************************************************************)
(* SpecSandbox: a child forked by Popen, from preexec to exec or exit      *)
(***************************************************************************)
InitSandbox ==
    /\ line = [s \in Sessions |-> NoLine]
    /\ sess = [s \in Sessions |-> [IdleSession EXCEPT !.pc = "popen"]]
    /\ pty = [s \in Sessions |-> NoPty]
    /\ child = [s \in Sessions |-> ForkedChild]
    /\ active_sessions = << >>
    /\ io = NoIo
    /\ server = NoServer
    /\ fds = NoFds
    /\ pods = NoPods
    /\ ctl = NoCtl
    /\ net = [s \in Sessions |-> NoNet]

SpecSandbox == InitSandbox /\ [][NextSandbox]_vars

(***************************************************************************)
(* SpecRemap: read_tcp's rewrite applied to chunks read from the peer      *)
(***************************************************************************)
InitRemap ==
    /\ line = [s \in Sessions |-> NoLine]
    /\ sess = [s \in Sessions |-> IdleSession]
    /\ pty = [s \in Sessions |-> NoPty]
    /\ child = [s \in Sessions |-> NoChild]
    /\ active_sessions = << >>
    /\ \E b \in EraseBytes : io = [NoIo EXCEPT !.verase_byte = b]
    /\ server = NoServer
    /\ fds = NoFds
    /\ pods = NoPods
    /\ ctl = NoCtl
    /\ net = [s \in Sessions |-> NoNet]

\* 292-298: a non-empty chunk is read, rewritten and handed to os.write;
\* the chunk of the previous turn of the loop and what was written for it
\* are kept
RemapChunk ==
    /\ \E data \in Chunks :
          io' = [io EXCEPT !.data = data,
                           !.written = Remap(data, io.verase_byte),
                           !.prev_data = io.data,
                           !.prev_written = io.written]
    /\ UNCHANGED <<line, sess, pty, child, active_sessions, server, fds, net>> /\ UNCHANGED <<pods, ctl>>

NextRemap == RemapChunk

SpecRemap == InitRemap /\ [][NextRemap]_vars

(***************************************************************************)
(* SpecServer: the server with two connections, their peers, their         *)
(* commands and the stop() coroutine                                       *)
(***************************************************************************)
\* the byte the command of s writes, and the byte the peer of s sends
OutByte(s) == 64 + s
InByte(s) == 96 + s

\* what one segment from the peer of s carries
InChunk(s) == <<InByte(s), InByte(s) + 16>>

\* the command, or a process it started, writes a byte to its terminal
ChildWrites(s) ==
    /\ child[s].status = "execd" /\ pty[s].open
    /\ pty[s].wrote < MaxOut
    /\ pty' = [pty EXCEPT ![s].out = Append(@, OutByte(s)), ![s].wrote = @ + 1]
    /\ UNCHANGED <<line, sess, child, active_sessions, io, server, fds, net>> /\ UNCHANGED <<pods, ctl>>

\* the peer sends a segment after the header
PeerSends(s) ==
    /\ sess[s].pc = "handle_io" /\ net[s].peer = "open"
    /\ net[s].sent < MaxIn
    /\ net' = [net EXCEPT ![s].rx = @ \o InChunk(s), ![s].sent = @ + 1]
    /\ UNCHANGED <<line, sess, pty, child, active_sessions, io, server, fds>> /\ UNCHANGED <<pods, ctl>>

\* the peer stops reading and the send buffer fills up to the high-water mark
PeerStalls(s) ==
    /\ sess[s].pc = "handle_io" /\ ~net[s].full
    /\ net' = [net EXCEPT ![s].full = TRUE]
    /\ UNCHANGED <<line, sess, pty, child, active_sessions, io, server, fds>> /\ UNCHANGED <<pods, ctl>>

\* the peer reads and the send buffer empties
PeerReads(s) ==
    /\ net[s].full
    /\ net' = [net EXCEPT ![s].full = FALSE]
    /\ UNCHANGED <<line, sess, pty, child, active_sessions, io, server, fds>> /\ UNCHANGED <<pods, ctl>>

\* the connection is lost: the peer resets it or the network gives up on it
PeerResets(s) ==
    /\ sess[s].pc = "handle_io" /\ net[s].peer # "reset"
    /\ "reset" \in server.faults
    /\ net' = [net EXCEPT ![s].peer = "reset", ![s].rx = << >>,
                          ![s].full = FALSE]
    /\ UNCHANGED <<line, sess, pty, child, active_sessions, io, server, fds>> /\ UNCHANGED <<pods, ctl>>

\* a command that does not ignore SIGTERM ends after stop() has signalled it
ChildDies(s) ==
    /\ child[s].status = "execd" /\ child[s].sigterm
    /\ child' = [child EXCEPT ![s].status = "terminated"]
    /\ UNCHANGED <<line, sess, pty, active_sessions, io, server, fds, net>> /\ UNCHANGED <<pods, ctl>>

\* 52-56: terminate() for every registered process that is still running
StopTerminate ==
    /\ server.stop = "idle" /\ server.running = 0
    /\ LET procs == {active_sessions[k].process : k \in DOMAIN active_sessions}
       IN /\ child' = [t \in DOMAIN child |->
                         IF t \in procs /\ child[t].status = "execd"
                         THEN [child[t] EXCEPT !.sigterm = TRUE]
                         ELSE child[t]]
          /\ server' = [server EXCEPT !.running = StopTask, !.stop = "clear",
                                      !.at_stop = procs]
    /\ UNCHANGED <<line, sess, pty, active_sessions, io, fds, net>> /\ UNCHANGED <<pods, ctl>>

\* 57
StopClear ==
    /\ server.stop = "clear" /\ server.running = StopTask
    /\ active_sessions' = << >>
    /\ server' = [server EXCEPT !.stop = "close"]
    /\ UNCHANGED <<line, sess, pty, child, io, fds, net>> /\ UNCHANGED <<pods, ctl>>

\* 59-61: the listener is closed; stop() then awaits wait_closed()
StopClose ==
    /\ server.stop = "close" /\ server.running = StopTask
    /\ server' = [server EXCEPT !.listening = FALSE, !.stop = "wait",
                                !.running = 0]
    /\ UNCHANGED <<line, sess, pty, child, active_sessions, io, fds, net>> /\ UNCHANGED <<pods, ctl>>

\* 61-62: wait_closed() returns: as soon as the listener is closed (Python
\* before 3.12) or when the open connections have ended as well (3.12 and
\* later), which is one of the later moments this step can take place at
StopDone ==
    /\ server.stop = "wait" /\ server.running = 0
    /\ server' = [server EXCEPT !.stop = "done"]
    /\ UNCHANGED <<line, sess, pty, child, active_sessions, io, fds, net>> /\ UNCHANGED <<pods, ctl>>

\* a header that names a command and leaves the rest to the defaults
Header ==
    Line("json", "{..}",
         MkObj(J_str("echo hi"), Absent, Absent, Absent, Absent, Absent))

\* the first lines sent in SpecServer: a header and a legacy line
ServerLines == {Header, Line("text", "echo hi", NotJson)}

\* connections C whose peers have sent the first lines ls, in an environment
\* that can produce the failures F
InitWith(C, ls, F) ==
    /\ line = ls
    /\ sess = [s \in C |-> IdleSession]
    /\ pty = [s \in C |-> NoPty]
    /\ child = [s \in C |-> NoChild]
    /\ active_sessions = << >>
    /\ io = NoIo
    /\ server = [NoServer EXCEPT !.faults = F]
    /\ fds = NoFds
    /\ pods = NoPods
    /\ ctl = NoCtl
    /\ net = [s \in C |-> NoNet]

InitServer ==
    \E l \in ServerLines :
        InitWith(Conns, [s \in Conns |-> IF s = 1 THEN l ELSE Header], {"sandbox"})

NextServer ==
    \/ \E s \in Conns :
        \/ Accept(s) \/ ReadLine(s) \/ ParseHeader(s) \/ OpenPty(s)
        \/ SetWinsize(s) \/ ConfigurePty(s) \/ BuildEnv(s) \/ Popen(s)
        \/ CloseSlave(s) \/ Register(s) \/ StartIO(s) \/ ChildExits(s)
        \/ ReadPty(s) \/ DrainPty(s) \/ ReadTcp(s) \/ GatherDone(s)
        \/ Except(s) \/ CloseMaster(s) \/ Terminate(s) \/ PopSession(s)
        \/ CloseWriter(s) \/ PeerEof(s) \/ ChildDies(s)
    \/ StopTerminate \/ StopClear \/ StopClose \/ StopDone

SpecServer == InitServer /\ [][NextServer]_vars

(***************************************************************************)
(* SpecBridge: two connections and the bytes their bridges carry           *)
(***************************************************************************)
InitBridge == InitWith(Conns, [s \in Conns |-> Header], {"fcntl"})

NextBridge ==
    \E s \in Conns :
        \/ Accept(s) \/ ReadLine(s) \/ ParseHeader(s) \/ OpenPty(s)
        \/ SetWinsize(s) \/ ConfigurePty(s) \/ BuildEnv(s) \/ Popen(s)
        \/ CloseSlave(s) \/ Register(s) \/ StartIO(s) \/ ChildExits(s)
        \/ ReadPty(s) \/ DrainPty(s) \/ ReadTcp(s) \/ GatherDone(s)
        \/ Except(s) \/ CloseMaster(s) \/ Terminate(s) \/ PopSession(s)
        \/ CloseWriter(s) \/ PeerEof(s) \/ ChildWrites(s) \/ PeerSends(s)

SpecBridge == InitBridge /\ [][NextBridge]_vars

(***************************************************************************)
(* SpecLive: one connection with its peer and its command; the event loop  *)
(* keeps running every coroutine that can run, while nothing obliges the   *)
(* peer or the command to act.  A coroutine waiting in drain() is woken as *)
(* soon as the send buffer has emptied once, hence the strong fairness of  *)
(* the outbound steps.                                                     *)
(***************************************************************************)
InitLive == InitWith(Sessions, [s \in Sessions |-> Header], {"fcntl"})

NextLive ==
    \E s \in Sessions :
        \/ Accept(s) \/ ReadLine(s) \/ ParseHeader(s) \/ OpenPty(s)
        \/ SetWinsize(s) \/ ConfigurePty(s) \/ BuildEnv(s) \/ Popen(s)
        \/ CloseSlave(s) \/ Register(s) \/ StartIO(s) \/ ChildExits(s)
        \/ ReadPty(s) \/ DrainPty(s) \/ ReadTcp(s) \/ GatherDone(s)
        \/ Except(s) \/ CloseMaster(s) \/ Terminate(s) \/ PopSession(s)
        \/ CloseWriter(s) \/ PeerEof(s) \/ ChildWrites(s) \/ PeerSends(s)
        \/ PeerStalls(s) \/ PeerReads(s)

EventLoopRuns ==
    \A s \in Sessions :
        /\ WF_vars(ParseHeader(s)) /\ WF_vars(OpenPty(s))
        /\ WF_vars(SetWinsize(s)) /\ WF_vars(ConfigurePty(s))
        /\ WF_vars(BuildEnv(s)) /\ WF_vars(Popen(s))
        /\ WF_vars(CloseSlave(s)) /\ WF_vars(Register(s))
        /\ WF_vars(StartIO(s)) /\ SF_vars(ReadPty(s))
        /\ SF_vars(DrainPty(s)) /\ WF_vars(ReadTcp(s))
        /\ WF_vars(GatherDone(s)) /\ WF_vars(Except(s))
        /\ WF_vars(CloseMaster(s)) /\ WF_vars(Terminate(s))
        /\ WF_vars(PopSession(s)) /\ WF_vars(CloseWriter(s))

SpecLive == InitLive /\ [][NextLive]_vars /\ EventLoopRuns

(***************************************************************************)
(* SpecAgent: two connections beside the agent's HTTP endpoints /mount,    *)
(* /unmount and /status, which run on the same event loop                  *)
(***************************************************************************)
FrontendIps == {"10.0.0.9"}

\* mount_manager.py 28-41
MountManager_mount(m, ip) == <<[m EXCEPT !.frontend_ip = ip], TRUE>>

MountManager_unmount_needs_mount(m) ==
    <<[m EXCEPT !.frontend_ip = "None"], m.frontend_ip # "None">>

\* mount_manager.py 84-93
MountManager_unmount(m) == <<[m EXCEPT !.frontend_ip = "None"], TRUE>>

get_sessions_running_only ==
    {[id |-> k, addr |-> [str |-> active_sessions[k].addr],
      command |-> active_sessions[k].command,
      started_at |-> [isoformat |-> active_sessions[k].started_at]] :
        k \in {j \in DOMAIN active_sessions :
                  child[active_sessions[j].process].status = "execd"}}

\* 64-74: one record for every item of the registry, with the text of the
\* address and of the start time
get_sessions ==
    {[id |-> k, addr |-> [str |-> active_sessions[k].addr],
      command |-> active_sessions[k].command,
      started_at |-> [isoformat |-> active_sessions[k].started_at]] :
        k \in DOMAIN active_sessions}

\* agent.py 178-217: refused while the agent is busy; mount() cannot fail
Mount ==
    /\ server.running = 0
    /\ \E ip \in FrontendIps :
          IF server.state.status \notin {"idle", "completed", "error"}
          THEN server' = [server EXCEPT !.resp = [kind |-> "mount",
                                                  code |-> 409]]
          ELSE LET r == MountManager_mount(server.mount_manager, ip)
               IN server' = [server EXCEPT
                     !.mount_manager = r[1],
                     !.state = IF r[2]
                               THEN [status |-> "running", frontend_ip |-> ip,
                                     command |-> "bash"]
                               ELSE [status |-> "error", frontend_ip |-> ip,
                                     command |-> "bash"],
                     !.resp = [kind |-> "mount",
                               code |-> IF r[2] THEN 200 ELSE 500],
                     !.unmounts = 0]
    /\ UNCHANGED <<line, sess, pty, child, active_sessions, io, fds, net>> /\ UNCHANGED <<pods, ctl>>

\* agent.py 221-247
Unmount ==
    /\ server.running = 0
    /\ LET r == MountManager_unmount(server.mount_manager)
       IN server' = [server EXCEPT
             !.mount_manager = r[1],
             !.state = IF r[2] THEN IdleState ELSE @,
             !.resp = [kind |-> "unmount",
                       status |-> IF r[2] THEN "success" ELSE "warning"],
             !.unmounts = IF @ < 2 THEN @ + 1 ELSE @]
    /\ UNCHANGED <<line, sess, pty, child, active_sessions, io, fds, net>> /\ UNCHANGED <<pods, ctl>>

\* agent.py 143-152
GetStatus ==
    /\ server.running = 0
    /\ server' = [server EXCEPT
          !.resp = [kind |-> "status", state |-> server.state,
                    sessions |-> get_sessions]]
    /\ UNCHANGED <<line, sess, pty, child, active_sessions, io, fds, net>> /\ UNCHANGED <<pods, ctl>>

InitAgent == InitWith(Conns, [s \in Conns |-> Header], {})

NextAgent ==
    \/ \E s \in Conns :
        \/ Accept(s) \/ ReadLine(s) \/ ParseHeader(s) \/ OpenPty(s)
        \/ SetWinsize(s) \/ ConfigurePty(s) \/ BuildEnv(s) \/ Popen(s)
        \/ CloseSlave(s) \/ Register(s) \/ StartIO(s) \/ ChildExits(s)
        \/ ReadPty(s) \/ DrainPty(s) \/ ReadTcp(s) \/ GatherDone(s)
        \/ CloseMaster(s) \/ Terminate(s) \/ PopSession(s)
        \/ CloseWriter(s)
    \/ Mount \/ Unmount \/ GetStatus

SpecAgent == InitAgent /\ [][NextAgent]_vars

(***************************************************************************)
(* SpecHosts: two connections from two frontends, whose sandboxes are      *)
(* built on the same host one after the other                              *)
(***************************************************************************)
InitHosts ==
    /\ line = [s \in Conns |-> Header]
    /\ sess = [s \in Conns |-> IdleSession]
    /\ pty = [s \in Conns |-> NoPty]
    /\ child = [s \in Conns |-> NoChild]
    /\ active_sessions = << >>
    /\ io = NoIo
    /\ server = [NoServer EXCEPT
                   !.faults = {"sandbox", "hosts_mount"},
                   !.peers = [s \in Conns |-> IF s = 1 THEN Frontend
                                               ELSE OtherFrontend]]
    /\ fds = NoFds
    /\ pods = NoPods
    /\ ctl = NoCtl
    /\ net = [s \in Conns |-> NoNet]

NextHosts ==
    \E s \in Conns :
        \/ Accept(s) \/ ReadLine(s) \/ ParseHeader(s) \/ OpenPty(s)
        \/ SetWinsize(s) \/ ConfigurePty(s) \/ BuildEnv(s) \/ Popen(s)
        \/ CloseSlave(s) \/ Register(s) \/ StartIO(s) \/ ChildExits(s)
        \/ ReadPty(s) \/ DrainPty(s) \/ ReadTcp(s) \/ GatherDone(s)
        \/ Except(s) \/ CloseMaster(s) \/ Terminate(s) \/ PopSession(s)
        \/ CloseWriter(s)

SpecHosts == InitHosts /\ [][NextHosts]_vars

(***************************************************************************)
(* SpecFail: two connections and the failures one of them can meet: a      *)
(* first line that is no header, no PTY, a spawn or a sandbox that fails,  *)
(* a connection that is lost                                               *)
(***************************************************************************)
InitFail ==
    \E l \in ServerLines :
        InitWith(Conns, [s \in Conns |-> IF s = 1 THEN l ELSE Header],
                 {"openpty", "fork", "sandbox", "reset"})

NextFail ==
    \E s \in Conns :
        \/ Accept(s) \/ ReadLine(s) \/ ParseHeader(s) \/ OpenPty(s)
        \/ SetWinsize(s) \/ ConfigurePty(s) \/ BuildEnv(s) \/ Popen(s)
        \/ CloseSlave(s) \/ Register(s) \/ StartIO(s) \/ ChildExits(s)
        \/ ReadPty(s) \/ DrainPty(s) \/ ReadTcp(s) \/ GatherDone(s)
        \/ Except(s) \/ CloseMaster(s) \/ Terminate(s) \/ PopSession(s)
        \/ CloseWriter(s) \/ PeerResets(s)

SpecFail == InitFail /\ [][NextFail]_vars

(***************************************************************************)
(* SpecIO: one connection whose bridge meets the failures of its two       *)
(* descriptors: short and refused writes to the PTY master, a connection   *)
(* that is lost                                                            *)
(***************************************************************************)
InitIO ==
    InitWith(Sessions, [s \in Sessions |-> Header],
             {"short_write", "EAGAIN", "reset"})

NextIO ==
    \E s \in Sessions :
        \/ Accept(s) \/ ReadLine(s) \/ ParseHeader(s) \/ OpenPty(s)
        \/ SetWinsize(s) \/ ConfigurePty(s) \/ BuildEnv(s) \/ Popen(s)
        \/ CloseSlave(s) \/ Register(s) \/ StartIO(s) \/ ChildExits(s)
        \/ ReadPty(s) \/ DrainPty(s) \/ ReadTcp(s) \/ GatherDone(s)
        \/ CloseMaster(s) \/ Terminate(s) \/ PopSession(s)
        \/ CloseWriter(s) \/ PeerEof(s) \/ ChildWrites(s) \/ PeerSends(s)
        \/ PeerStalls(s) \/ PeerReads(s) \/ PeerResets(s)

SpecIO == InitIO /\ [][NextIO]_vars

(***************************************************************************)
(* SpecPool: the controller and the pods of the pool                       *)
(***************************************************************************)
InitPool ==
    /\ line = [s \in Sessions |-> NoLine]
    /\ sess = [s \in Sessions |-> IdleSession]
    /\ pty = [s \in Sessions |-> NoPty]
    /\ child = [s \in Sessions |-> NoChild]
    /\ active_sessions = << >>
    /\ io = NoIo
    /\ server = NoServer
    /\ fds = NoFds
    /\ net = [s \in Sessions |-> NoNet]
    /\ pods = NoPods
    /\ \E F \in {{}} \cup {{f} : f \in CtlFaults} :
          ctl = [NoCtl EXCEPT !.faults = F]

NextPool ==
    \/ InitializePool
    \/ \E p \in PodNames : PodStarts(p)
    \/ \E c \in Callers :
          \/ InteractiveStart(c)
          \/ GetFrontendIp(c)
          \/ GetAvailablePod(c)
          \/ AssignPod(c)
          \/ GetBackendIp(c)
          \/ MountFrontend(c)
          \/ ReleasePod(c)
          \/ InteractiveEnd(c)

SpecPool == InitPool /\ [][NextPool]_vars

(***************************************************************************)
(* Claims about the sandbox construction (SpecSandbox)                     *)
(***************************************************************************)
Ran(c) == {c.log[k] : k \in DOMAIN c.log}
Terminated(c) == c.pc = "done"

FatalSteps ==
    {E("unshare", ""), E("mount_private", ""), E("sshfs", ""),
     E("chroot", ""), E("chdir", ""), E("setgid", ""), E("setuid", "")}

\* C5: once a fatal step (new mount namespace, private propagation, remote
\* mount, chroot, chdir, setgid, setuid) has failed, it is the last
\* operation the child ever attempts: no later step runs, the privilege
\* drop is not performed after an earlier fatal failure, the command is
\* never executed and the process ends with a nonzero exit status.
C5_FatalFailureAborts ==
    \A s \in Sessions :
        LET c == child[s]
        IN \A f \in FatalSteps \cap c.faults :
            /\ c.log # << >> /\ c.log[Len(c.log)] = f
            /\ c.pc \in {"except", "done"}
            /\ c.status # "execd"
            /\ E("exec", "") \notin Ran(c)
            /\ f \notin {E("setgid", ""), E("setuid", "")}
                  => Ran(c) \cap {E("setgid", ""), E("setuid", "")} = {}
            /\ f = E("setgid", "") => E("setuid", "") \notin Ran(c)
            /\ Terminated(c) => c.status = "exited" /\ c.exitcode # 0

C5_Witness ==
    \E s \in Sessions :
        /\ E("sshfs", "") \in child[s].faults
        /\ child[s].status = "exited"

\* C6: the command executes only in a process that is chrooted at the
\* mounted remote filesystem with gid and uid both the unprivileged
\* account; never as root, outside the chroot, or with only the group
\* changed.
C6_CommandRunsSandboxed ==
    \A s \in Sessions :
        child[s].status = "execd" =>
            /\ child[s].root = CHROOT_PATH
            /\ CHROOT_PATH \in child[s].mounts
            /\ child[s].gid = 1000
            /\ child[s].uid = 1000

C6_Witness == \E s \in Sessions : child[s].status = "execd"

\* C7: setuid is attempted only after setgid has succeeded, and both only
\* after chroot and then chdir have succeeded.
C7_GroupBeforeUser ==
    \A s \in Sessions :
        LET c == child[s]
            before(a, k) == \E j \in 1..(k - 1) : c.log[j] = a
        IN \A k \in DOMAIN c.log :
            /\ c.log[k] = E("setuid", "") =>
                  /\ before(E("setgid", ""), k)
                  /\ E("setgid", "") \notin c.faults
                  /\ c.gid = 1000
            /\ c.log[k] \in {E("setgid", ""), E("setuid", "")} =>
                  /\ \E j \in 1..(k - 1) :
                        c.log[j] = E("chdir", "") /\ before(E("chroot", ""), j)
                  /\ {E("chroot", ""), E("chdir", "")} \cap c.faults = {}
                  /\ c.root = CHROOT_PATH /\ c.cwd = "/home/dcuuser"

C7_Witness ==
    \E s \in Sessions :
        /\ E("setuid", "") \in Ran(child[s])
        /\ child[s].status = "execd"

\* the eight steps as the specification numbers them
SpecStage(e) ==
    CASE e.op \in {"setsid", "TIOCSCTTY"} -> 0
      [] e.op = "unshare" -> 1
      [] e.op = "mount_private" -> 2
      [] e.op \in {"makedirs", "sshfs"} -> 3
      [] e.op \in {"mktarget", "bind"} /\ e.arg # "usr/bin/sudo" -> 4
      [] e.op \in {"secure_dir", "copy", "chmod", "create", "remount"} -> 5
      [] e.op = "bind" /\ e.arg = "usr/bin/sudo" -> 5
      [] e.op = "hosts_overlay" -> 6
      [] e.op \in {"chroot", "chdir"} -> 7
      [] e.op \in {"setgid", "setuid", "environ"} -> 8
      [] OTHER -> 9

AmendedStage(e) ==
    CASE e.op \in {"setsid", "TIOCSCTTY"} -> 0
      [] e.op = "unshare" -> 1
      [] e.op = "mount_private" -> 2
      [] e.op \in {"makedirs", "sshfs"} -> 3
      [] e.op \in {"secure_dir", "copy", "chmod"} -> 4
      [] e.op \in {"mktarget", "bind"} /\ e.arg # "usr/bin/sudo" -> 5
      [] e.op \in {"create", "remount"} -> 6
      [] e.op = "bind" /\ e.arg = "usr/bin/sudo" -> 6
      [] e.op = "hosts_overlay" -> 7
      [] e.op \in {"chroot", "chdir"} -> 8
      [] e.op \in {"setgid", "setuid", "environ"} -> 9
      [] OTHER -> 10

C9_AbsentSourceSkipped ==
    \A s \in Sessions :
        LET c == child[s]
        IN /\ \A d \in c.absent :
                /\ {E("bind", d), E("mktarget", d)} \cap Ran(c) = {}
                /\ E("skip", d) \in c.warnings
                /\ d \notin c.mounts
           /\ c.pc = "except" => c.log[Len(c.log)] \in c.faults
           /\ (Terminated(c) /\ c.faults = {}) =>
                /\ c.status = "execd"
                /\ c.root = CHROOT_PATH
                /\ c.uid = 1000 /\ c.gid = 1000

C9_Witness ==
    \E s \in Sessions :
        /\ child[s].absent = {"proc", "usr/lib/sudo"}
        /\ child[s].faults = {}
        /\ child[s].status = "execd"

HelperOps ==
    {E("secure_dir", ""), E("copy", "sudo"), E("chmod", "sudo"),
     E("create", "usr/bin/sudo"), E("bind", "usr/bin/sudo"),
     E("remount", "usr/bin/sudo")}

\* C10: a construction in which only operations of the privileged-helper
\* hardening failed logs them as warnings and still ends with the command
\* executing in the chroot as the unprivileged user.
C10_HelperFailureNonFatal ==
    \A s \in Sessions :
        LET c == child[s]
        IN (Terminated(c) /\ c.faults # {} /\ c.faults \subseteq HelperOps) =>
              /\ c.status = "execd"
              /\ c.faults \subseteq c.warnings
              /\ c.root = CHROOT_PATH /\ c.uid = 1000

(***************************************************************************)
(* Claims about the header protocol (Spec)                                 *)
(***************************************************************************)
IsObjectLine(l) == l.kind = "json" /\ l.json.t = "obj"
HasField(o, k) == k \in DOMAIN o.v
\* the header carries settings.verase
HasVerase(o) ==
    /\ HasField(o, "settings")
    /\ o.v["settings"].t = "obj"
    /\ HasField(o.v["settings"], "verase")
VeraseOf(o) == o.v["settings"].v["verase"]
Parsed(x) == x.pc \notin {"idle", "readline", "parse"}

\* rows, cols and term are the header's values, or 24 / 80 / xterm-256color
GeometryNegotiated(x, o) ==
    /\ x.rows = IF HasField(o, "rows") THEN o.v["rows"] ELSE J_int(24)
    /\ x.cols = IF HasField(o, "cols") THEN o.v["cols"] ELSE J_int(80)
    /\ x.term_env = IF HasField(o, "term") THEN o.v["term"]
                    ELSE J_str("xterm-256color")

\* C1 as stated: for a first line that is a JSON object, rows, cols and
\* term equal the header's values or the defaults, and the erase byte is
\* settings.verase when that field is present and DEL when it is omitted.
C1_HeaderRespected ==
    \A s \in Sessions :
        IsObjectLine(line[s]) =>
            /\ Parsed(sess[s]) => GeometryNegotiated(sess[s], line[s].json)
            /\ sess[s].negotiated =>
                  IF HasVerase(line[s].json)
                  THEN J_int(sess[s].verase_byte) = VeraseOf(line[s].json)
                  ELSE sess[s].verase_byte = 127

\* C1 amended: as stated for rows, cols and term; the erase byte is
\* settings.verase when that is an integer in 0..255 and the PTY attributes
\* could be read, and it is DEL when verase is omitted or null, when it is
\* an integer outside 0..255, or when reading the PTY attributes failed.
C1_HeaderRespectedInRange ==
    \A s \in Sessions :
        IsObjectLine(line[s]) =>
            /\ Parsed(sess[s]) => GeometryNegotiated(sess[s], line[s].json)
            /\ sess[s].negotiated =>
                  LET o == line[s].json
                      v == IF HasVerase(o) THEN VeraseOf(o) ELSE J_null
                      readable == "tcgetattr" \notin sess[s].envfault
                  IN IF v.t = "int" /\ readable
                        /\ (IF v.t = "int" THEN v.v \in 0..255 ELSE FALSE)
                     THEN sess[s].verase_byte = v.v
                     ELSE (v.t \in {"int", "null"}) =>
                              sess[s].verase_byte = 127

C1_Witness ==
    \E s \in Sessions :
        /\ IsObjectLine(line[s])
        /\ sess[s].negotiated
        /\ HasVerase(line[s].json)
        /\ VeraseOf(line[s].json) = J_int(8)
        /\ sess[s].verase_byte = 8
        /\ HasField(line[s].json, "rows") /\ sess[s].rows = J_int(40)
        /\ ~HasField(line[s].json, "cols") /\ sess[s].cols = J_int(80)

\* C2: a first line that is not JSON is run as the command with all
\* defaults: when nothing in the environment failed, a PTY was allocated,
\* the child was started and registered with that line as its command,
\* the bridge ran, and the connection is closed after the child's exit.
C2_LegacyLineRuns ==
    \A s \in Sessions :
        (line[s].kind = "text" /\ sess[s].pc = "closed"
                               /\ sess[s].envfault = {}) =>
            /\ sess[s].command = J_str(line[s].raw)
            /\ sess[s].rows = J_int(24) /\ sess[s].cols = J_int(80)
            /\ sess[s].term_env = J_str("xterm-256color")
            /\ sess[s].verase_byte = 127
            /\ sess[s].master_fd # 0 /\ ~FdOpen(sess[s].master_fd)
            /\ sess[s].process # "none"
            /\ sess[s].was_registered
            /\ sess[s].process_done
            /\ child[s].status \in {"exited", "terminated", "killed"}
            /\ sess[s].writer = "closed"

\* C3: no first line is rejected for its format: for a line that is not a
\* JSON object (plain text, or JSON that is a number, a string, an array,
\* true or null) a child process is started unless the environment fails.
C3_NoFormatRejection ==
    \A s \in Sessions :
        (line[s].kind \in {"text", "json"} /\ ~IsObjectLine(line[s])
            /\ sess[s].pc = "closed" /\ sess[s].envfault = {}) =>
            /\ sess[s].process # "none"
            /\ sess[s].exc = "none"

Bytes(q) == {q[k] : k \in DOMAIN q}

\* C11: with sessions running concurrently, every byte delivered to the
\* connection of a session was written by that session's command to its own
\* PTY, and every byte written to a session's PTY master was sent by that
\* session's peer: no byte crosses from one session to another.
C11_SessionsIsolated ==
    \A s \in DOMAIN net :
        /\ Bytes(net[s].tx) \subseteq {OutByte(s)}
        /\ Bytes(pty[s].inp) \subseteq Bytes(InChunk(s))

\* both bridges are running at once and each has carried bytes both ways
C11_Witness ==
    /\ DOMAIN net = Conns
    /\ \A s \in Conns :
          /\ sess[s].pc = "handle_io"
          /\ net[s].tx # << >> /\ pty[s].inp # << >>

\* the step is taken by the handler of connection s
HandlerStep(s) == sess'[s] # sess[s]
Live(s) == sess[s].pc \notin {"idle", "closed"}
OwnsMaster(t) ==
    IsMaster(sess[t].master_fd) /\ fds[sess[t].master_fd].obj = t

\* C12: the registry keys of connections that are live at the same time are
\* distinct, and a step of one connection's handler leaves alone every
\* registry entry under another key and every other connection's locals,
\* PTY, master descriptor and process.
C12_OwnEntryOnly ==
    /\ [](\A s, t \in DOMAIN sess :
            (s # t /\ Live(s) /\ Live(t)) =>
                sess[s].session_id # sess[t].session_id)
    /\ [][\A s \in DOMAIN sess :
            HandlerStep(s) =>
              /\ \A k \in (DOMAIN active_sessions \cup DOMAIN active_sessions')
                          \ {sess'[s].session_id} :
                    /\ k \in DOMAIN active_sessions
                    /\ k \in DOMAIN active_sessions'
                    /\ active_sessions'[k] = active_sessions[k]
              /\ \A t \in DOMAIN sess \ {s} :
                    /\ sess'[t] = sess[t]
                    /\ pty'[t] = pty[t]
                    /\ child'[t] = child[t]
                    /\ OwnsMaster(t) =>
                          fds'[sess[t].master_fd] = fds[sess[t].master_fd]]_vars

\* one session has been cleaned up while the other is still registered
C12_Witness ==
    /\ DOMAIN sess = Conns
    /\ \E s, t \in Conns :
          /\ sess[s].pc = "closed" /\ sess[s].was_registered
          /\ sess[t].pc = "handle_io"
          /\ sess[t].session_id \in DOMAIN active_sessions

(***************************************************************************)
(* Claims about the end of a session (SpecLive)                            *)
(***************************************************************************)
Destroyed(s) ==
    /\ sess[s].pc = "closed"
    /\ sess[s].writer = "closed"
    /\ ~FdOpen(sess[s].master_fd)
    /\ child[s].status # "execd"
    /\ active_sessions = << >>

\* C13: once the command of a running session has exited, with code 0 or
\* not, the session is eventually cleaned up without any action of the peer:
\* registry entry removed (the registry is as large as before the session),
\* PTY master closed, connection closed by the server.
C13_ExitLeadsToCleanup ==
    \A s \in Sessions :
        (sess[s].pc = "handle_io" /\ child[s].status = "exited")
            ~> Destroyed(s)

\* C14: once the peer has closed the connection while the command is still
\* running, the session is eventually destroyed, whether or not the command
\* ever exits on its own.
C14_DisconnectLeadsToCleanup ==
    \A s \in Sessions :
        (sess[s].pc = "handle_io" /\ net[s].peer = "eof"
                                 /\ child[s].status = "execd")
            ~> Destroyed(s)

(***************************************************************************)
(* Claims about the cleanup of a session (Spec)                            *)
(***************************************************************************)
CleanupStage(e) ==
    CASE e = "close_master" -> 1
      [] e = "terminate" -> 2
      [] e = "wait" -> 3
      [] e = "kill" -> 4
      [] e = "pop" -> 5
      [] e = "close_writer" -> 6

\* C15: in every cleanup the actions come in the order: PTY master closed;
\* then, only when the child is still running, terminate, the bounded wait,
\* and kill only after that wait; then the registry entry removed; then the
\* connection closed.  No kill without a terminate before it, and no child
\* is left running once the entry is removed.
C15_CleanupOrder ==
    \A s \in DOMAIN sess :
        LET tr == sess[s].trace
            did == Bytes(tr)
        IN /\ \A i, j \in DOMAIN tr :
                 i < j => CleanupStage(tr[i]) < CleanupStage(tr[j])
           /\ "kill" \in did => "wait" \in did
           /\ "wait" \in did => "terminate" \in did
           /\ "terminate" \in did =>
                 child[s].status \in {"terminated", "killed"}
           /\ "pop" \in did =>
                 /\ sess[s].master_fd # 0 => "close_master" \in did
                 /\ child[s].status # "execd"
           /\ "close_writer" \in did => "pop" \in did
           /\ sess[s].pc = "closed" => "close_writer" \in did

\* a cleanup that found the child running and had to kill it
C15_Witness ==
    \E s \in DOMAIN sess :
        /\ sess[s].pc = "closed"
        /\ sess[s].trace =
              <<"close_master", "terminate", "wait", "kill", "pop",
                "close_writer">>

(***************************************************************************)
(* Claims about stop() and the registry (SpecServer)                       *)
(***************************************************************************)
Running(p) == child[p].status = "execd"

\* C16: stop() force-terminates the process of every registered session and
\* clears the registry before it closes the listener: in the state in which
\* the listener has just stopped accepting, the registry is empty and no
\* process that was registered when stop() began is running any more.
C16_StopTerminatesBeforeClose ==
    [][(server.listening /\ ~server'.listening) =>
          /\ active_sessions' = << >>
          /\ \A p \in server'.at_stop : ~Running(p)']_vars

\* C17: once stop() has completed, no command is still running and no
\* session is registered, then or later; this includes a connection that was
\* accepted but not yet registered when stop() ran and a command that does
\* not exit on the termination signal.
C17_StopCleansEverything ==
    server.stop = "done" =>
        /\ active_sessions = << >>
        /\ \A s \in DOMAIN child : ~Running(s)

\* the child of s has been started and cleanup has not removed the session
Started(s) == sess[s].process # "none" /\ "pop" \notin Bytes(sess[s].trace)

\* the registry holds an entry for the process of s
Registered(s) ==
    \E k \in DOMAIN active_sessions : active_sessions[k].process = s

\* C18: whenever the event loop is between two steps, a session is in the
\* registry exactly if it is live (child started, not yet removed by its
\* cleanup), also after stop() has cleared the registry.
C18_RegisteredIffLive ==
    server.running = 0 =>
        \A s \in DOMAIN sess :
            Started(s) <=> Registered(s)

(***************************************************************************)
(* Claims about the PTY and the process of a session (Spec, SpecBridge)    *)
(***************************************************************************)
\* the handler of s holds the open master side of its PTY
PtyValid(s) == OwnsMaster(s)
\* the handler of s holds a process that its cleanup has not yet dealt with
ProcValid(s) ==
    sess[s].process # "none" /\ sess[s].pc \notin {"pop", "close_writer", "closed"}

\* C19: in every reachable state the PTY master descriptor and the child
\* process handle of a session are both valid or both absent, and no child
\* runs with its PTY master already closed.
C19_PtyAndProcessTogether ==
    \A s \in DOMAIN sess :
        /\ PtyValid(s) <=> ProcValid(s)
        /\ (sess[s].process # "none" /\ Running(s)) => PtyValid(s)

\* C19 (amended): the same, in the states in which the handler is suspended
\* at an await or has returned, which are the states other coroutines see.
C19_TogetherWhenSuspended ==
    server.running = 0 =>
        \A s \in DOMAIN sess :
            /\ PtyValid(s) <=> ProcValid(s)
            /\ (sess[s].process # "none" /\ Running(s)) => PtyValid(s)

\* a suspended bridge with both, and a returned handler with neither
C19_Witness ==
    \E s \in DOMAIN sess :
        /\ server.running = 0
        /\ sess[s].pc = "handle_io"
        /\ PtyValid(s) /\ ProcValid(s) /\ Running(s)

\* the handler of s has relayed a byte in one direction or the other
Relayed(s) == net[s].tx # << >> \/ net[s].sent > Len(net[s].rx)

\* C20: a session is inserted in the registry before any byte is relayed in
\* either direction of its bridge.
C20_RegisteredBeforeBytes ==
    \A s \in DOMAIN sess : Relayed(s) => sess[s].was_registered

\* bytes have gone both ways through a registered session
C20_Witness ==
    \E s \in DOMAIN sess :
        /\ net[s].tx # << >> /\ pty[s].inp # << >>
        /\ sess[s].was_registered
        /\ sess[s].session_id \in DOMAIN active_sessions
(***************************************************************************)
(* Claims about the end of a session (Spec)                                *)
(***************************************************************************)
BridgeStopped(s) == sess[s].rp \in {"none", "done"} /\ sess[s].rt \in {"none", "done"}

\* C21: the registry entry of a session is removed (233) only after both
\* directions of its bridge have stopped and its child, if one was started,
\* has been reaped by a poll() or wait() that saw it ended, on every cleanup
\* path, the one that ends in kill() included.
C21_PopAfterStopAndReap ==
    \A s \in DOMAIN sess :
        "pop" \in Bytes(sess[s].trace) =>
            /\ BridgeStopped(s)
            /\ sess[s].process # "none" => child[s].reaped
\* the lifecycle state of a session, read from the handler's position and
\* locals: the header is parsed when command is bound (103-118), the sandbox
\* is being started once the environment is built (167-174), the session runs
\* while read_pty is in its loop (257) and drains once the loop has ended
\* (269); the handler's cleanup belongs to the state it was entered from
Phase(x) ==
    IF x.pc = "idle" THEN "None"
    ELSE IF x.pc = "closed" THEN "Closed"
    ELSE IF x.rp \in {"drain", "drain_blocked", "done"} THEN "Draining"
    ELSE IF x.rp \in {"loop", "loop_blocked"} THEN "Running"
    ELSE IF x.env.TERM # Unbound THEN "SandboxStarting"
    ELSE IF x.command # Unbound THEN "HeaderNegotiated"
    ELSE "Connected"

SpecMachine ==
    {<<"None", "Connected">>, <<"Connected", "HeaderNegotiated">>,
     <<"HeaderNegotiated", "SandboxStarting">>,
     <<"SandboxStarting", "Running">>, <<"Running", "Draining">>,
     <<"Draining", "Closed">>, <<"SandboxStarting", "Closed">>}

CodeMachine ==
    SpecMachine \cup {<<"Connected", "Closed">>,
                      <<"HeaderNegotiated", "Closed">>}

\* every step of session s is a transition of machine M; Running gives way
\* to Draining exactly when poll() (258) sees the child ended; Draining
\* gives way to Closed only with the drain done and both directions stopped
Lifecycle(M) ==
    \A s \in DOMAIN sess :
        LET a == Phase(sess[s])
            b == Phase(sess'[s])
        IN /\ a # b => <<a, b>> \in M
           /\ a = "Running" =>
                 (b = "Draining" <=> ~child[s].reaped /\ child'[s].reaped)
           /\ a = "Draining" /\ b = "Closed" =>
                 sess[s].process_done /\ BridgeStopped(s)

\* C22: the lifecycle of every session is a path in Connected ->
\* HeaderNegotiated -> SandboxStarting -> Running -> Draining -> Closed with
\* the one shortcut SandboxStarting -> Closed; Running -> Draining happens
\* exactly when the exit of the child is observed, Draining -> Closed only
\* after the drain attempts and the end of both directions.
C22_LifecycleAsSpecified == [][Lifecycle(SpecMachine)]_vars

\* C22, as the code has it: a connection can also be closed from Connected
\* (end of stream before a first line, a first line that cannot be used) and
\* from HeaderNegotiated (the PTY or the environment cannot be set up).
C22_LifecycleInCode == [][Lifecycle(CodeMachine)]_vars

C22_Witness ==
    \E s \in DOMAIN sess :
        /\ sess[s].pc = "closed" /\ sess[s].rp = "done"
        /\ sess[s].process_done /\ child[s].reaped
(***************************************************************************)
(* Claims about the bridge and its two descriptors (SpecIO, SpecLive)      *)
(***************************************************************************)
\* the bytes the command of s has written and the bytes its peer has sent
Written(s) == [k \in 1 .. pty[s].wrote |-> OutByte(s)]

RECURSIVE Segments(_, _)
Segments(s, n) == IF n = 0 THEN << >> ELSE Segments(s, n - 1) \o InChunk(s)

\* C23: in each direction of a session the bytes delivered are the bytes
\* read, in order, none dropped, duplicated or reordered, the inbound ones
\* after the erase rewrite, whatever the writes to the non-blocking master
\* return: on a connection that is up, what the peer got followed by what
\* waits in the PTY is what the command wrote, and what the PTY got followed
\* by the rewrite of what waits in the stream is the rewrite of what the
\* peer sent.
C23_BytesDeliveredAsRead ==
    \A s \in DOMAIN sess :
        sess[s].rp # "none" /\ net[s].peer # "reset" =>
            /\ net[s].tx \o pty[s].out = Written(s)
            /\ pty[s].inp \o Remap(net[s].rx, sess[s].verase_byte)
                  = Remap(Segments(s, net[s].sent), sess[s].verase_byte)
\* C24: once the exit of the child is observed the outbound direction makes
\* at most 10 further read attempts, forwards what they gave and only then
\* sets process_done; the inbound direction stops after that, so that both
\* directions have stopped a bounded number of steps after the exit,
\* whatever the peer does.
C24_BridgeEndsAfterExit ==
    /\ [](\A s \in Sessions :
            /\ sess[s].drain <= DrainAttempts
            /\ sess[s].process_done => sess[s].rp = "done")
    /\ \A s \in Sessions : (sess[s].rp = "drain") ~> BridgeStopped(s)
\* C25: an error on the connection or on the PTY master, in either
\* direction, ends that direction, which reads and writes no more, and is
\* not raised: _handle_io returns normally once both directions have ended.
C25_ErrorEndsDirection ==
    \A s \in DOMAIN sess :
        /\ sess[s].rp_err => sess[s].rp = "done"
        /\ sess[s].rt_err => sess[s].rt = "done"
        /\ sess[s].rp_err \/ sess[s].rt_err => sess[s].exc = "none"
(***************************************************************************)
(* Claims about failures of one session among others (SpecFail)            *)
(***************************************************************************)
\* the session has met a failure of its own: an exception in the handler
\* (header, PTY, spawn, sandbox) or an error in a direction of its bridge
Failed(x) == x.exc # "none" \/ x.rp_err \/ x.rt_err

\* C26: a failure confined to one session never stops the listener and
\* never changes the registry entry, the PTY or the process of another
\* session; all it does to the registry is remove the entry of its session.
C26_FailureStaysLocal ==
    [][\A s \in DOMAIN sess :
          HandlerStep(s) /\ Failed(sess'[s]) =>
            /\ server'.listening = server.listening
            /\ server'.stop = server.stop
            /\ DOMAIN active_sessions' \subseteq DOMAIN active_sessions
            /\ DOMAIN active_sessions \ DOMAIN active_sessions'
                  \subseteq {sess[s].session_id}
            /\ \A k \in DOMAIN active_sessions' :
                  active_sessions'[k] = active_sessions[k]
            /\ \A t \in DOMAIN sess \ {s} :
                  /\ sess'[t] = sess[t] /\ pty'[t] = pty[t]
                  /\ child'[t] = child[t] /\ net'[t] = net[t]
                  /\ OwnsMaster(t) =>
                        fds'[sess[t].master_fd] = fds[sess[t].master_fd]]_vars

\* a session has failed and is closed; the other one was accepted after
\* that (its writer has the address of the closed one) and is registered
\* and bridging
C26_Witness ==
    \E s, t \in DOMAIN sess :
        /\ s # t /\ sess[s].pc = "closed" /\ Failed(sess[s])
        /\ sess[t].session_id = sess[s].session_id
        /\ sess[t].pc = "handle_io" /\ Registered(t) /\ OwnsMaster(t)
        /\ server.listening
\* C27: when the start of a session fails after pty.openpty() (121), the
\* handler has, by the time it finishes, closed every descriptor it opened,
\* the master side and the slave side of the PTY, and the connection.
C27_NoDescriptorLeft ==
    \A s \in DOMAIN sess :
        sess[s].pc = "closed" /\ sess[s].master_fd # 0
                /\ sess[s].rp = "none" =>
            /\ \A n \in Fds : fds[n].obj # s
            /\ sess[s].writer = "closed"
(***************************************************************************)
(* Claims about the agent's endpoints (SpecAgent)                          *)
(***************************************************************************)
\* C28: MountManager.unmount and the /unmount endpoint are idempotent:
\* whatever the state, never mounted, mounted, or unmounted before, the call
\* reports success, leaves the manager without a frontend address, and a
\* second call changes nothing.
C28_UnmountIdempotent ==
    [][Unmount =>
         /\ server'.resp = [kind |-> "unmount", status |-> "success"]
         /\ server'.mount_manager.frontend_ip = "None"
         /\ server'.state = IdleState
         /\ server.unmounts >= 1 =>
               /\ server'.mount_manager = server.mount_manager
               /\ server'.state = server.state
         /\ UNCHANGED <<sess, pty, child, active_sessions, fds, net>>]_vars

\* /unmount has been called twice in a row, with a session registered
C28_Witness ==
    /\ server.unmounts = 2 /\ server.resp.kind = "unmount"
    /\ active_sessions # << >>

\* C29: get_sessions gives one record (id, address, command, start time)
\* for every session in the registry and none for any other session, and
\* leaves the registry, the processes and the descriptors as they were.
C29_SessionsAsRegistered ==
    [][GetStatus =>
         LET recs == server'.resp.sessions
         IN /\ Cardinality(recs) = Cardinality(DOMAIN active_sessions)
            /\ \A k \in DOMAIN active_sessions :
                  \E r \in recs :
                     /\ r.id = k
                     /\ r.addr = [str |-> active_sessions[k].addr]
                     /\ r.command = active_sessions[k].command
                     /\ r.started_at =
                           [isoformat |-> active_sessions[k].started_at]
            /\ UNCHANGED <<sess, pty, child, active_sessions, fds, net>>]_vars

\* a status response that lists two sessions, one whose command has ended
C29_Witness ==
    /\ server.resp.kind = "status"
    /\ Cardinality(server.resp.sessions) = 2
    /\ \E k \in DOMAIN active_sessions :
          child[active_sessions[k].process].status = "exited"
(***************************************************************************)
(* Claims about the erase character (Spec)                                 *)
(***************************************************************************)
\* the erase character of the line discipline: the one tcsetattr (159)
\* installed, or DEL, which a new PTY has
EraseChar(p) == IF p.verase = {} THEN DEL ELSE CHOOSE b \in p.verase : TRUE

\* C30: in every session that reaches the bridge the erase byte of the
\* inbound rewrite is the erase character installed in the line discipline
\* of the PTY, and that is the client's settings.verase when the header has
\* one (a byte) and DEL otherwise, whatever the outcome of the calls that
\* apply the configuration.
C30_EraseByteIsInstalled ==
    \A s \in Sessions :
        sess[s].rp # "none" /\ IsObjectLine(line[s]) =>
            LET o == line[s].json
                v == IF HasVerase(o) THEN VeraseOf(o) ELSE J_null
                client == IF v.t = "int" /\ IsByte(v) THEN v.v ELSE DEL
            IN /\ sess[s].verase_byte = EraseChar(pty[s])
               /\ EraseChar(pty[s]) = client
(***************************************************************************)
(* Claims about the start of the command (Spec)                            *)
(***************************************************************************)
\* the connection gave no command: it ended before a first line, or its
\* first line is a JSON object without the field
NoCommand(l) ==
    \/ l.kind = "eof"
    \/ IsObjectLine(l) /\ ~HasField(l.json, "command")

\* C31: a process is spawned and a registry entry made only for a
\* connection whose header gave a command; a connection that ends before a
\* first line, or whose JSON header has no command field, spawns nothing,
\* registers nothing and is closed by the server when its handler ends.
C31_NoCommandNoProcess ==
    \A s \in Sessions :
        /\ NoCommand(line[s]) =>
              /\ child[s] = NoChild /\ sess[s].process = "none"
              /\ ~sess[s].was_registered /\ active_sessions = << >>
              /\ sess[s].pc = "closed" => sess[s].writer = "closed"
        /\ child[s] # NoChild \/ sess[s].was_registered =>
              IsObjectLine(line[s]) /\ HasField(line[s].json, "command")

\* a header without command went as far as Popen and its connection is
\* closed; a connection that sent nothing is closed
C31_Witness ==
    \E s \in Sessions :
        /\ sess[s].pc = "closed" /\ sess[s].writer = "closed"
        /\ IsObjectLine(line[s]) /\ ~HasField(line[s].json, "command")
        /\ sess[s].exc = "TypeError" /\ sess[s].master_fd # 0
(***************************************************************************)
(* Claims about sandboxes on one host (SpecHosts)                          *)
(***************************************************************************)
\* the content the command of s finds at etc/hosts when the overlay is
\* bound there: that of the file /tmp/hosts_overlay of the host
HostsSeen(s) == server.hosts_overlay

\* C32: the sandbox constructions of sessions that start side by side do
\* not interfere: each session has the outcome and sees the hosts overlay
\* (and the hardened helper) it would have alone; the rewrite of the scratch
\* hosts file by one session never changes the sandbox of another.
C32_SandboxesIndependent ==
    \A s \in DOMAIN sess :
        child[s].status = "execd" /\ "etc/hosts" \in child[s].mounts =>
            HostsSeen(s) = HostsOf(s)
(***************************************************************************)
(* Claims about the environment of the command (Spec)                      *)
(***************************************************************************)
\* C33: the command executed in the sandbox has HOME = /home/dcuuser and
\* USER = dcuuser in its environment, the values set in the pre-exec step,
\* beside TERM set to the negotiated terminal type.
C33_CommandSeesUserEnv ==
    \A s \in Sessions :
        child[s].status = "execd" =>
            /\ child[s].cmd.HOME = HomeDir
            /\ child[s].cmd.USER = "dcuuser"
            /\ sess[s].env.TERM = sess[s].term_env
(***************************************************************************)
(* Claims about the server process (SpecFail)                              *)
(***************************************************************************)
\* C34: sandbox construction acts on the forked child only: whatever the
\* number of sessions, started or failed, the mount namespace, the root and
\* working directory, the user and group and the environment of the server
\* process stay as they were.
C34_ServerProcessUntouched == server.proc = ServerProc

\* one session runs its command in a sandbox, as the unprivileged user,
\* and the sandbox of another one has failed
C34_Witness ==
    \E s, t \in DOMAIN sess :
        /\ child[s].status = "execd" /\ child[s].root = CHROOT_PATH
        /\ child[s].uid = UnprivUid /\ child[s].ns
        /\ sess[t].exc = "SubprocessError" /\ child[t].status = "exited"
(***************************************************************************)
(* Claims about the rewrite over a stream of chunks (SpecRemap)            *)
(***************************************************************************)
\* C37: for every erase byte, what is written for two chunks read one after
\* the other is the rewrite of their concatenation, so the bytes written do
\* not depend on where the reads split the stream; and rewriting what was
\* written changes nothing.
C37_RemapSplitsAndRepeats ==
    /\ io.prev_written \o io.written =
          Remap(io.prev_data \o io.data, io.verase_byte)
    /\ Remap(io.written, io.verase_byte) = io.written

\* two chunks that both hold erase bytes, split between a 0x08 and a 0x7F
C37_Witness ==
    /\ io.verase_byte = BS
    /\ io.prev_data = <<65, BS>> /\ io.data = <<DEL, DEL>>
    /\ io.prev_written = <<65, BS>> /\ io.written = <<BS, BS>>
(***************************************************************************)
(* Claims about the controller (SpecPool)                                  *)
(***************************************************************************)
\* C35: whatever the interleaving of the calls of interactive_start, the
\* pod a call assigns is unassigned when it is assigned: assign_pod after
\* get_available_pod never assigns a pod whose label says assigned, so
\* two calls do not both get the same pod without a release in between.
C35_AssignsOnlyAvailable ==
    [][\A c \in Callers :
          (Call(c).pc = "assign_pod" /\ ctl'.calls[c].pc = "get_backend_ip")
             => pods[Call(c).backend_pod].pool_status = STATUS_AVAILABLE]_vars

\* C36: a call of interactive_start that returns an error after it has
\* selected a pod leaves that pod labelled available, whether the address
\* lookup, the mount command or its timeout made it fail.
C36_ErrorLeavesPodAvailable ==
    [][\A c \in Callers :
          (/\ Call(c).pc # "returned"
           /\ ctl'.calls[c].pc = "returned"
           /\ ctl'.calls[c].status = "error"
           /\ ctl'.calls[c].backend_pod # NoPodName)
             => pods'[ctl'.calls[c].backend_pod].pool_status
                   = STATUS_AVAILABLE]_vars

\* C38: a call of initialize_pool that follows one that created POOL_SIZE
\* pods creates none, reports the POOL_SIZE pods as existing and reports
\* no failure.
C38_InitializeTwice ==
    \A k \in 1..(Len(ctl.inits) - 1) :
        Len(ctl.inits[k].created) = POOL_SIZE =>
            /\ ctl.inits[k + 1].created = << >>
            /\ Len(ctl.inits[k + 1].existing) = POOL_SIZE
            /\ ctl.inits[k + 1].failed = << >>
====
